---- MODULE Spec2Model ----
(***************************************************************************)
(* Storage providers of RDM-waterbutler (RushFiles, Google Drive for       *)
(* institutions, Fedora) as one state machine: a provider object, the      *)
(* backend it talks to, and the call in progress with its position, its    *)
(* local variables, the requests it has in flight and its outcome.         *)
(*                                                                         *)
(* Strings are sequences of one-character strings, so that strip, split    *)
(* and endswith are computed as the Python code computes them.             *)
(***************************************************************************)
EXTENDS Integers, Sequences, FiniteSets, TLC

VARIABLES prov, backend, held, op, argStr, argPath, argConfirm, pc, loc,
          inflight, log, result,
          before,     \* history: the backend as it was when the call began
          abandoned   \* history: the identifier the resolution that was last
                      \* abandoned had reached, None when none was

vars == <<prov, backend, held, op, argStr, argPath, argConfirm, pc, loc,
          inflight, log, result, before, abandoned>>

\* What a step of a call leaves alone: the provider and the call's
\* arguments.
frame == <<prov, held, op, argStr, argPath, argConfirm, before, abandoned>>

(***************************************************************************)
(* Bounds and alphabets                                                    *)
(***************************************************************************)
MaxPathLen == 5

Chars == {"/", "x", "y"}

Names == { <<"x">>, <<"y">> }

Providers == {"rushfiles", "googledrive", "fedora"}

\* Python's None, for identifiers that are not resolved.
None == "None"

\* settings['share']['id'] (RushFiles), settings['folder']['id'] (Google
\* Drive): the configured root identifier.
RootId == "root"

\* The backend's entities, in the order the backend lists them. The last
\* is the identifier the backend gives to the next entity it creates.
IdSeq == <<"a", "b", "c">>

Ids == { IdSeq[i] : i \in 1..Len(IdSeq) }

\* A richer alphabet for what names do to resolution: a name in two
\* letter cases, a name that is a space, and the escape of a space in a
\* path string.
RichChars == {"/", "x", "X", "%20"}

RichNames == { <<"x">>, <<"X">>, <<" ">> }

\* The path strings a caller can hand to validate_path / validate_v1_path:
\* they start with a slash, and every name in them is one of Names (a name
\* is one token, so no two of them are adjacent).
PathStrings ==
    { s \in UNION { [1..n -> Chars] : n \in 1..MaxPathLen } :
        /\ s[1] = "/"
        /\ \A i \in 1..(Len(s) - 1) : s[i] = "/" \/ s[i + 1] = "/" }

RichPathStrings ==
    { s \in UNION { [1..n -> RichChars] : n \in 1..MaxPathLen } :
        /\ s[1] = "/"
        /\ \A i \in 1..(Len(s) - 1) : s[i] = "/" \/ s[i + 1] = "/" }

(***************************************************************************)
(* Python string operations                                                *)
(***************************************************************************)
EndsWithSlash(s) == Len(s) > 0 /\ s[Len(s)] = "/"

RECURSIVE LStripSlash(_)
LStripSlash(s) ==
    IF Len(s) > 0 /\ s[1] = "/" THEN LStripSlash(Tail(s)) ELSE s

RECURSIVE RStripSlash(_)
RStripSlash(s) ==
    IF Len(s) > 0 /\ s[Len(s)] = "/"
    THEN RStripSlash(SubSeq(s, 1, Len(s) - 1))
    ELSE s

StripSlash(s) == RStripSlash(LStripSlash(s))

\* s.split('/'): always at least one (possibly empty) piece.
RECURSIVE SplitFrom(_, _, _)
SplitFrom(s, i, cur) ==
    IF i > Len(s) THEN << cur >>
    ELSE IF s[i] = "/" THEN << cur >> \o SplitFrom(s, i + 1, << >>)
    ELSE SplitFrom(s, i + 1, Append(cur, s[i]))

SplitSlash(s) == SplitFrom(s, 1, << >>)

\* '//' in s
HasDoubleSlash(s) == \E i \in 1..(Len(s) - 1) : s[i] = "/" /\ s[i + 1] = "/"

\* '/'.join(pieces)
RECURSIVE JoinSlash(_)
JoinSlash(pieces) ==
    IF Len(pieces) = 0 THEN << >>
    ELSE IF Len(pieces) = 1 THEN pieces[1]
    ELSE pieces[1] \o << "/" >> \o JoinSlash(Tail(pieces))

\* parse.unquote / parse.quote(safe=''), token by token: the escape of a
\* space is one token.
Unquote(s) == [ k \in 1..Len(s) |-> IF s[k] = "%20" THEN " " ELSE s[k] ]

Quote(s) == [ k \in 1..Len(s) |-> IF s[k] = " " THEN "%20" ELSE s[k] ]

\* s.lower(), token by token.
Lower(s) == [ k \in 1..Len(s) |-> IF s[k] = "X" THEN "x" ELSE s[k] ]

(***************************************************************************)
(* WaterButlerPath (waterbutler.core.path)                                 *)
(***************************************************************************)
\* generic_path_validation: a path string must start with '/' and hold no
\* empty segment.
ValidPathString(s) ==
    /\ Len(s) > 0
    /\ s[1] = "/"
    /\ ~HasDoubleSlash(s)

\* WaterButlerPath(path, _ids=ids, folder=folder) with folder given.
MkPath(s, ids, folder) == [ path |-> s, ids |-> ids, folder |-> folder ]

\* WaterButlerPath(path, _ids=ids): folder is None, the trailing slash
\* decides.
MkPathDefault(s, ids) == MkPath(s, ids, EndsWithSlash(s))

NoPath == [ path |-> << >>, ids |-> << >>, folder |-> FALSE ]

\* The names of the parts: path.rstrip('/').split('/'); the first is the
\* root part ''.
PartNames(p) == SplitSlash(RStripSlash(p.path))

\* itertools.zip_longest(_ids, parts): the identifier of part k.
PartId(p, k) == IF k <= Len(p.ids) THEN p.ids[k] ELSE None

\* path.identifier: the identifier of the last part.
Identifier(p) == PartId(p, Len(PartNames(p)))

IsRoot(p) == Len(PartNames(p)) = 1

IsDir(p) == p.folder

\* str(path): the values of the parts, which are their raw names decoded
\* (PART_CLASS.DECODE = parse.unquote), joined.
PathStr(p) ==
    LET names == [ k \in 1..Len(PartNames(p)) |-> Unquote(PartNames(p)[k]) ]
    IN  << "/" >> \o JoinSlash(Tail(names))
        \o (IF IsDir(p) /\ Len(names) > 1 THEN << "/" >> ELSE << >>)

\* The identifiers of all parts, None where a part has none.
PathIds(p) == [ k \in 1..Len(PartNames(p)) |-> PartId(p, k) ]

\* An equality that compares the identifiers as well.
PathEqWithIds(p, q) == PathStr(p) = PathStr(q) /\ PathIds(p) = PathIds(q)

\* path == other, as the tests use it: the root path validate_v1_path('/')
\* returns, which carries the share id, equals RushFilesPath('/',
\* folder=True), which carries none. The string forms are compared.
PathEq(p, q) == PathStr(p) = PathStr(q)

\* WaterButlerPath.validate_folder(path): a path that is not a folder is
\* refused.
validate_folder(p) == IsDir(p)

\* path.name: the name of the last part.
PathName(p) == PartNames(p)[Len(PartNames(p))]

\* path.parent.identifier: the identifier of the part before the last; the
\* root has no parent.
ParentIdentifier(p) == IF IsRoot(p) THEN None ELSE PartId(p, Len(PartNames(p)) - 1)

\* path.parts[-1]._id = id
SetIdentifier(p, id) ==
    LET n == Len(PartNames(p))
    IN  MkPath(p.path, [ k \in 1..n |-> IF k = n THEN id ELSE PartId(p, k) ], p.folder)

\* path.child(name, folder=folder): the path with one more part, which has
\* no identifier.
Child(p, name, folder) ==
    MkPath(p.path \o name \o (IF folder THEN << "/" >> ELSE << >>),
           [ k \in 1..Len(PartNames(p)) |-> PartId(p, k) ] \o << None >>,
           folder)

(***************************************************************************)
(* Outcomes of a call, requests and the request primitive                  *)
(***************************************************************************)
NoMsg == << >>

\* A metadata record built from the backend's data (its id and name) and
\* a path: XMetadata(data, path).
MetadataOf(kind, id, name, p) == [ kind |-> kind, id |-> id, name |-> name, path |-> p ]

\* A metadata record built from a path alone: its name is the path's.
Metadata(kind, p) ==
    MetadataOf(kind, None, PartNames(p)[Len(PartNames(p))], p)

NoMetadata == MetadataOf("none", None, << >>, NoPath)

Pending ==
    [ st |-> "pending", exc |-> "", code |-> 0, msg |-> NoMsg,
      val |-> NoPath, md |-> NoMetadata, flag |-> FALSE, list |-> << >> ]

\* The call returned a path.
Returned(p) ==
    [ st |-> "ok", exc |-> "", code |-> 0, msg |-> NoMsg,
      val |-> p, md |-> NoMetadata, flag |-> FALSE, list |-> << >> ]

\* The call returned a metadata record.
ReturnedMetadata(md) ==
    [ st |-> "ok", exc |-> "", code |-> 0, msg |-> NoMsg,
      val |-> NoPath, md |-> md, flag |-> FALSE, list |-> << >> ]

\* The call returned the pair (metadata, created).
ReturnedPair(md, created) ==
    [ st |-> "ok", exc |-> "", code |-> 0, msg |-> NoMsg,
      val |-> NoPath, md |-> md, flag |-> created, list |-> << >> ]

\* The call returned a truth value.
ReturnedBool(v) ==
    [ st |-> "ok", exc |-> "", code |-> 0, msg |-> NoMsg,
      val |-> NoPath, md |-> NoMetadata, flag |-> v, list |-> << >> ]

\* The call returned a list.
ReturnedList(l) ==
    [ st |-> "ok", exc |-> "", code |-> 0, msg |-> NoMsg,
      val |-> NoPath, md |-> NoMetadata, flag |-> FALSE, list |-> l ]

\* The call returned None.
ReturnedNone == Returned(NoPath)

Raised(exc, code, msg) ==
    [ st |-> "raised", exc |-> exc, code |-> code, msg |-> msg,
      val |-> NoPath, md |-> NoMetadata, flag |-> FALSE, list |-> << >> ]

\* exceptions.NotFoundError(path): code 404.
NotFoundError(msg) == Raised("NotFoundError", 404, msg)

\* exceptions.InvalidPathError: code 400.
InvalidPathError(msg) == Raised("InvalidPathError", 400, msg)

\* A backend request: method, the kind of url, the identifier or the
\* segments the url addresses, and the query it carries.
Req(method, kind, id, segs, q) ==
    [ method |-> method, kind |-> kind, id |-> id, segs |-> segs, q |-> q ]

NoQuery == [ name |-> << >>, folder |-> FALSE ]

ReqEvent(r) == [ e |-> "req", req |-> r, status |-> 0 ]

RespEvent(r, status) == [ e |-> "resp", req |-> r, status |-> status ]

\* make_request(..., expects=..., throws=...): a status outside expects
\* raises throws with the status as its code.
Unexpected(status, expects) == status \notin expects

\* The requests issued so far by the call in progress.
Requests == SelectSeq(log, LAMBDA ev : ev.e = "req")

Responses == SelectSeq(log, LAMBDA ev : ev.e = "resp")

\* Statuses with which a backend can refuse any request.
FailureStatuses == {404, 500}

(***************************************************************************)
(* The backend: entities with a name, a parent, a kind and a state         *)
(***************************************************************************)
Live(b, id) == id \in Ids /\ b[id].st = "live"

IsLiveFolder(b, id) == id = RootId \/ (Live(b, id) /\ ~b[id].isFile)

\* The live children of a parent, in the backend's listing order.
ChildrenOf(b, parent) ==
    SelectSeq(IdSeq, LAMBDA id : Live(b, id) /\ b[id].parent = parent)

\* The entity and everything below it.
RECURSIVE Below(_, _, _)
Below(b, id, n) ==
    IF n = 0 THEN {id}
    ELSE {id} \cup UNION { Below(b, c, n - 1) : c \in { d \in Ids : b[d].parent = id } }

Subtree(b, id) == Below(b, id, Cardinality(Ids))

\* An entity the backend no longer has.
Gone == [ name |-> << >>, parent |-> RootId, isFile |-> FALSE, st |-> "gone" ]

\* The entity is removed together with what is below it; when tomb is set a
\* tombstone is left where the entity was.
RemoveSubtree(b, id, tomb) ==
    [ e \in Ids |->
        IF e = id /\ tomb THEN [ b[e] EXCEPT !.st = "tomb" ]
        ELSE IF e \in Subtree(b, id) THEN Gone
        ELSE b[e] ]

\* An identifier the backend has not given to any entity yet.
Free == [ name |-> << >>, parent |-> RootId, isFile |-> FALSE, st |-> "free" ]

\* The identifiers the backend has not used yet.
FreshIds(b) == { id \in Ids : b[id].st = "free" }

WellFormed(b) ==
    /\ b["a"].parent = RootId
    /\ \A id \in Ids : b[id].parent = RootId \/ IsLiveFolder(b, b[id].parent)
    /\ \A id \in Ids : b[id].parent # id

SiblingNamesUnique(b) ==
    \A i, j \in Ids :
        (i # j /\ b[i].parent = b[j].parent) => b[i].name # b[j].name

Entities ==
    [ name : Names, parent : {RootId} \cup Ids, isFile : BOOLEAN, st : {"live"} ]

\* Fedora addresses a resource by its path, so sibling names are unique
\* there; RushFiles and Google Drive address by identifier.
InitialBackends(p) ==
    { b \in [Ids -> Entities \cup {Free}] :
        /\ b["a"] \in Entities /\ b["b"] \in Entities /\ b["c"] = Free
        /\ WellFormed(b)
        /\ (p = "fedora" => SiblingNamesUnique(b)) }

\* Backends whose entities carry the names of the richer alphabet.
RichEntities ==
    [ name : RichNames, parent : {RootId} \cup Ids, isFile : BOOLEAN, st : {"live"} ]

RichBackends ==
    { b \in [Ids -> RichEntities \cup {Free}] :
        /\ b["a"] \in RichEntities /\ b["b"] \in RichEntities /\ b["c"] = Free
        /\ WellFormed(b) }

(***************************************************************************)
(* Calls                                                                   *)
(***************************************************************************)
NoLocals == [ none |-> TRUE ]

\* A call begins: its arguments are bound. A call on a path is handed the
\* path the caller holds; a call on a path string is made by a caller that
\* holds none.
Begin(name, s, p, confirm) ==
    /\ pc = "idle"
    /\ p = held
    /\ held' = NoPath
    /\ op' = name
    /\ argStr' = s
    /\ argPath' = p
    /\ argConfirm' = confirm
    /\ before' = backend
    /\ abandoned' = abandoned

\* The call ends with outcome r before it has issued any request.
FinishAtOnce(r) ==
    /\ inflight' = {}
    /\ log' = << >>
    /\ pc' = "done"
    /\ result' = r

\* The call issues its first request r and awaits the response at
\* position next.
FirstSend(r, next) ==
    /\ inflight' = {r}
    /\ log' = << ReqEvent(r) >>
    /\ pc' = next
    /\ result' = Pending

\* The request whose response the call awaits.
Awaited == CHOOSE r \in inflight : TRUE

\* The response to request r arrives with the given status and the call
\* ends with outcome res.
ReceiveFinish(r, status, res) ==
    /\ r \in inflight
    /\ inflight' = inflight \ {r}
    /\ log' = Append(log, RespEvent(r, status))
    /\ pc' = "done"
    /\ result' = res

\* The response to request r arrives with the given status; the call runs
\* on to its next await, where it issues request r2 and awaits the
\* response at position next.
ReceiveSend(r, status, r2, next) ==
    /\ r \in inflight
    /\ inflight' = (inflight \ {r}) \cup {r2}
    /\ log' = log \o << RespEvent(r, status), ReqEvent(r2) >>
    /\ pc' = next
    /\ result' = result

(***************************************************************************)
(* RushFiles: validate_path and validate_v1_path                           *)
(***************************************************************************)
\* A listing request that always asks for the children of the share's root.
rf_children_request_of_root(inter_id) == Req("GET", "children", RootId, << >>, NoQuery)

\* GET .../virtualfiles/<inter_id>/children
rf_children_request(inter_id) == Req("GET", "children", inter_id, << >>, NoQuery)

\* The Data of a children listing: one entry per live child, in order.
rf_children_data(b, inter_id) ==
    [ k \in 1..Len(ChildrenOf(b, inter_id)) |->
        LET id == ChildrenOf(b, inter_id)[k]
        IN  [ InternalName |-> id,
              IsFile       |-> b[id].isFile,
              PublicName   |-> b[id].name ] ]

\* The statuses the backend can answer a children listing with: 200 with
\* the listing for a folder, 404 for anything else, or a refusal.
rf_children_statuses(b, inter_id) ==
    (IF IsLiveFolder(b, inter_id) THEN {200} ELSE {404}) \cup FailureStatuses

\* The statuses the backend answers a request about one entity with.
rf_entity_statuses(b, inter_id) ==
    (IF Live(b, inter_id) THEN {200} ELSE {404}) \cup FailureStatuses

\* The statuses the backend can answer request r with, and the backend
\* after it answered: a DELETE answered 200 has removed the entity.
rf_statuses(b, r) ==
    IF r.kind = "children" THEN rf_children_statuses(b, r.id)
    ELSE rf_entity_statuses(b, r.id)

rf_after(b, r, status) ==
    IF r.method = "DELETE" /\ status = 200 THEN RemoveSubtree(b, r.id, FALSE) ELSE b

\* A search that keeps the last entry whose PublicName is child.
rf_search_inter_id_last(data, child) ==
    LET hits == { k \in 1..Len(data) : data[k].PublicName = child }
    IN  IF hits = {}
        THEN [ id |-> None, index |-> 0 ]
        ELSE LET k == CHOOSE m \in hits : \A n \in hits : m >= n
             IN  [ id |-> data[k].InternalName, index |-> k ]

\* A search that compares names without regard to letter case.
rf_search_inter_id_nocase(data, child) ==
    LET hits == { k \in 1..Len(data) : Lower(data[k].PublicName) = Lower(child) }
    IN  IF hits = {}
        THEN [ id |-> None, index |-> 0 ]
        ELSE LET k == CHOOSE m \in hits : \A n \in hits : m <= n
             IN  [ id |-> data[k].InternalName, index |-> k ]

\* _search_inter_id(res, child): the first entry whose PublicName is child.
rf_search_inter_id(data, child) ==
    LET hits == { k \in 1..Len(data) : data[k].PublicName = child }
    IN  IF hits = {}
        THEN [ id |-> None, index |-> 0 ]
        ELSE LET k == CHOOSE m \in hits : \A n \in hits : m <= n
             IN  [ id |-> data[k].InternalName, index |-> k ]

\* An end of validate_v1_path that returns whatever validate_path returned.
rf_validate_v1_check_skipped(r) == r

\* The end of validate_v1_path: the path validate_path returned must carry
\* a final identifier.
rf_validate_v1_check(r) ==
    IF r.st = "ok" /\ Identifier(r.val) = None
    THEN NotFoundError(PathStr(r.val))
    ELSE r

\* A return that leaves the identifiers out.
rf_return_path_no_ids(s, ids, folder) ==
    IF ValidPathString(s) THEN Returned(MkPath(s, << >>, folder))
    ELSE InvalidPathError(s)

\* validate_path returns RushFilesPath(path, folder=folder, _ids=ids): the
\* constructor refuses a malformed path string.
rf_return_path(s, ids, folder) ==
    IF ValidPathString(s) THEN Returned(MkPath(s, ids, folder))
    ELSE InvalidPathError(s)

\* RushFilesPath(path, _ids=ids): the return for a missing last segment.
rf_return_path_default(s, ids) ==
    IF ValidPathString(s) THEN Returned(MkPathDefault(s, ids))
    ELSE InvalidPathError(s)

\* A test that takes every segment for the last one.
rf_is_last_always(i, children_path_list) == TRUE

\* i == len(children_path_list) - 1, with i counted from 1 here.
rf_is_last(i, children_path_list) == i = Len(children_path_list)

\* A comparison that never finds the kinds to differ.
rf_kind_mismatch_never(is_file, is_folder) == FALSE

\* res['Data'][index]['IsFile'] == is_folder
rf_kind_mismatch(is_file, is_folder) == is_file = is_folder

\* An outcome in which validate_v1_path marks the path it returns as a
\* folder.
rf_outcome_as_folder(name, r) ==
    IF name = "validate_v1_path" /\ r.st = "ok" /\ Identifier(r.val) # None
    THEN Returned(MkPath(r.val.path, r.val.ids, TRUE))
    ELSE IF name = "validate_v1_path" /\ r.st = "ok"
    THEN NotFoundError(PathStr(r.val))
    ELSE r

\* The outcome of the call when validate_path ends with r.
rf_outcome(name, r) == IF name = "validate_v1_path" THEN rf_validate_v1_check(r) ELSE r

\* A resolution that goes on from where the one abandoned before it had
\* arrived.
rf_start_inter_id_resumed == IF abandoned # None THEN abandoned ELSE RootId

\* inter_id_list = [self.share['id']]; current_inter_id = self.share['id']
rf_start_inter_id == RootId

\* validate_path(path) / validate_v1_path(path) up to the first request.
rf_validate_path_call(name, s) ==
    /\ prov = "rushfiles"
    /\ Begin(name, s, NoPath, 0)
    /\ IF s = << "/" >>
       THEN /\ FinishAtOnce(rf_outcome(name, rf_return_path(s, << RootId >>, TRUE)))
            /\ loc' = NoLocals
       ELSE /\ FirstSend(rf_children_request(rf_start_inter_id), "rf_validate_recv")
            /\ loc' = [ is_folder          |-> EndsWithSlash(s),
                        children_path_list |-> SplitSlash(StripSlash(s)),
                        inter_id_list      |-> << rf_start_inter_id >>,
                        current_inter_id   |-> rf_start_inter_id,
                        i                  |-> 1 ]
    /\ UNCHANGED <<prov, backend>>

\* The loop does not move on to the next segment.
rf_next_i_same(i) == i

\* for i, child in enumerate(children_path_list): the next iteration.
rf_next_i(i) == i + 1

\* A listing refused with a status outside expects is asked for again.
rf_listing_refused_retry(r, status) ==
    ReceiveSend(r, status, r, "rf_validate_recv")

\* make_request(..., expects=(200, 404,), throws=exceptions.MetadataError):
\* a status outside expects ends the call with MetadataError.
rf_listing_refused(r, status) ==
    ReceiveFinish(r, status, Raised("MetadataError", status, NoMsg))

\* The loop body after the await of the children listing, up to the next
\* listing request or the end of the call.
rf_validate_path_recv(status) ==
    LET r     == Awaited
        data  == rf_children_data(backend, r.id)
        child == loc.children_path_list[loc.i]
        hit   == rf_search_inter_id(data, child)
        ids   == Append(loc.inter_id_list, hit.id)
        last  == rf_is_last(loc.i, loc.children_path_list)
    IN  /\ pc = "rf_validate_recv"
        /\ status \in rf_statuses(backend, r)
        /\ backend' = rf_after(backend, r, status)
        /\ IF Unexpected(status, {200, 404})
           THEN /\ rf_listing_refused(r, status)
                /\ loc' = loc
           ELSE IF status = 404
           THEN /\ ReceiveFinish(r, status, NotFoundError(argStr))
                /\ loc' = loc
           ELSE IF hit.id = None
           THEN /\ loc' = [loc EXCEPT !.inter_id_list = ids, !.current_inter_id = None]
                /\ ReceiveFinish(r, status,
                      IF last
                      THEN rf_outcome(op, rf_return_path_default(argStr, ids))
                      ELSE NotFoundError(argStr))
           ELSE IF ~last
           THEN /\ loc' = [loc EXCEPT !.inter_id_list = ids,
                                      !.current_inter_id = hit.id,
                                      !.i = rf_next_i(loc.i)]
                /\ ReceiveSend(r, status, rf_children_request(hit.id), "rf_validate_recv")
           ELSE /\ loc' = [loc EXCEPT !.inter_id_list = ids, !.current_inter_id = hit.id]
                /\ ReceiveFinish(r, status,
                      IF rf_kind_mismatch(data[hit.index].IsFile, loc.is_folder)
                      THEN NotFoundError(argStr)
                      ELSE rf_outcome(op, rf_return_path(argStr, ids, loc.is_folder)))
        /\ UNCHANGED frame

(***************************************************************************)
(* RushFiles: delete                                                       *)
(***************************************************************************)
\* GET .../virtualfiles/<inter_id>
rf_virtualfile_request(inter_id) == Req("GET", "virtualfile", inter_id, << >>, NoQuery)

\* DELETE .../files/<internalName>
rf_delete_request(inter_id) == Req("DELETE", "file", inter_id, << >>, NoQuery)

\* metadata.extra of a file metadata record: the deletion flag and the
\* internal name of the raw payload.
rf_metadata_extra(inter_id, deleted) == [ deleted |-> deleted, internalName |-> inter_id ]

\* The request with which metadata(path) starts: the children listing for a
\* folder path, the entity itself for a file path.
rf_metadata_request(p) ==
    IF IsDir(p) THEN rf_children_request(Identifier(p))
    ELSE rf_virtualfile_request(Identifier(p))

\* Every path passes for resolved.
rf_no_identifier_never(p) == FALSE

\* if not path.identifier
rf_no_identifier(p) == Identifier(p) = None

\* delete(path, confirm_delete) up to the await of metadata(path).
rf_delete_call(confirm) ==
    /\ prov = "rushfiles"
    /\ held # NoPath
    /\ Begin("delete", << >>, held, confirm)
    /\ loc' = NoLocals
    /\ IF rf_no_identifier(held)
       THEN FinishAtOnce(NotFoundError(PathStr(held)))
       ELSE IF IsRoot(held)
       THEN FinishAtOnce(Raised("DeleteError", 400, NoMsg))
       ELSE FirstSend(rf_metadata_request(held), "rf_delete_metadata_recv")
    /\ UNCHANGED <<prov, backend>>

\* metadata(path) returns; the deletion flag is checked and the DELETE is
\* issued. The metadata of a folder path is a list, which has no extra.
rf_delete_metadata_recv(status, deleted) ==
    LET id    == Identifier(argPath)
        r     == Awaited
        extra == rf_metadata_extra(r.id, deleted)
    IN  /\ pc = "rf_delete_metadata_recv"
        /\ status \in rf_statuses(backend, r)
        /\ backend' = rf_after(backend, r, status)
        /\ IF Unexpected(status, {200, 404})
           THEN ReceiveFinish(r, status, Raised("MetadataError", status, NoMsg))
           ELSE IF status = 404
           THEN ReceiveFinish(r, status, NotFoundError(PathStr(argPath)))
           ELSE IF IsDir(argPath)
           THEN ReceiveFinish(r, status, Raised("AttributeError", 0, << "extra" >>))
           ELSE IF ~extra.deleted
           THEN ReceiveFinish(r, status, Raised("DeleteError", 403, NoMsg))
           ELSE ReceiveSend(r, status, rf_delete_request(extra.internalName),
                            "rf_delete_recv")
        /\ UNCHANGED <<frame, loc>>

\* The DELETE is answered.
rf_delete_recv(status) ==
    LET r == Awaited
    IN  /\ pc = "rf_delete_recv"
        /\ status \in rf_statuses(backend, r)
        /\ backend' = rf_after(backend, r, status)
        /\ ReceiveFinish(r, status,
              IF Unexpected(status, {200, 404})
              THEN Raised("MetadataError", status, NoMsg)
              ELSE IF status = 404
              THEN NotFoundError(PathStr(argPath))
              ELSE ReturnedNone)
        /\ UNCHANGED <<frame, loc>>

(***************************************************************************)
(* RushFiles: the operations that are not implemented                      *)
(***************************************************************************)
NotImplemented == {"intra_move", "intra_copy", "upload", "create_folder"}

\* intra_move, intra_copy, upload, create_folder: raise NotImplementedError.
rf_not_implemented_call(name) ==
    /\ prov = "rushfiles"
    /\ held # NoPath
    /\ name \in NotImplemented
    /\ Begin(name, << >>, held, 0)
    /\ FinishAtOnce(Raised("NotImplementedError", 0, NoMsg))
    /\ loc' = NoLocals
    /\ UNCHANGED <<prov, backend>>

(***************************************************************************)
(* Google Drive: validate_path, validate_v1_path, _resolve_path_to_ids     *)
(***************************************************************************)
FOLDER_MIME_TYPE == "application/vnd.google-apps.folder"

\* The mime type the backend reports for an entity.
gd_mime(b, id) == IF b[id].isFile THEN "text/plain" ELSE FOLDER_MIME_TYPE

\* 'folder' in mimeType
HasFolderInMime(m) == m \in {"folder", FOLDER_MIME_TYPE}

\* One element of the list _resolve_path_to_ids returns. The element for a
\* missing last part carries its name under the key 'title', not 'name'.
gd_part(id, name, mime, named) ==
    [ id |-> id, name |-> name, mimeType |-> mime, named |-> named ]

gd_root_part == gd_part(RootId, << >>, "folder", TRUE)

gd_missing_part(part) ==
    gd_part(None, part.name, IF part.folder THEN "folder" ELSE "", FALSE)

\* parts = [[parse.unquote(x), True] for x in path.strip('/').split('/')],
\* the last one False when the path has no trailing slash.
gd_parts(s) ==
    LET pieces == SplitSlash(StripSlash(s))
    IN  [ k \in 1..Len(pieces) |->
            [ name   |-> Unquote(pieces[k]),
              folder |-> (k < Len(pieces)) \/ EndsWithSlash(s) ] ]

gd_parents_request(file_id) == Req("GET", "parents", file_id, << >>, NoQuery)

gd_query_request(file_id, part) ==
    Req("GET", "query", file_id, << >>, [ name |-> part.name, folder |-> part.folder ])

gd_meta_request(file_id) == Req("GET", "meta", file_id, << >>, NoQuery)

\* The files a name query answers with: the live children of file_id of
\* that name and kind, in order.
gd_query_files(b, file_id, q) ==
    SelectSeq(ChildrenOf(b, file_id),
              LAMBDA id : b[id].name = q.name /\ b[id].isFile = ~q.folder)

\* The statuses the backend answers a request about file_id with.
gd_file_statuses(b, file_id) ==
    (IF file_id = RootId \/ Live(b, file_id) THEN {200} ELSE {404}) \cup FailureStatuses

\* The statuses the backend answers the DELETE of a file with.
gd_delete_statuses(b, file_id) ==
    (IF Live(b, file_id) THEN {200} ELSE {404}) \cup FailureStatuses

\* The statuses the backend answers the creation of a file or folder in
\* a parent with.
gd_create_statuses(b, parent) ==
    (CASE ~IsLiveFolder(b, parent) -> {404}
       [] FreshIds(b) = {}         -> {}
       [] OTHER                    -> {200}) \cup FailureStatuses

\* The identifier the backend gives to the next entity it creates.
gd_new_id(b) == CHOOSE id \in FreshIds(b) : TRUE

gd_after_create(b, parent, name, isFile) ==
    [ b EXCEPT ![gd_new_id(b)] =
        [ name |-> name, parent |-> parent, isFile |-> isFile, st |-> "live" ] ]

\* The statuses the backend answers the update of a file's name and
\* parent with: the file and the new parent exist and the parent is not
\* below the file.
gd_update_statuses(b, file_id, parent) ==
    (CASE ~Live(b, file_id) \/ ~IsLiveFolder(b, parent) -> {404}
       [] parent \in Subtree(b, file_id)                 -> {403}
       [] OTHER                                          -> {200}) \cup FailureStatuses

gd_after_update(b, file_id, parent, name) ==
    [ b EXCEPT ![file_id] = [ @ EXCEPT !.name = name, !.parent = parent ] ]

\* The statuses the backend answers the copy of a file with: folders are
\* not copied.
gd_copy_statuses(b, file_id, parent) ==
    (CASE ~Live(b, file_id) \/ ~IsLiveFolder(b, parent) -> {404}
       [] ~b[file_id].isFile                             -> {403}
       [] FreshIds(b) = {}                               -> {}
       [] OTHER                                          -> {200}) \cup FailureStatuses

\* The statuses the backend answers the two requests of a resumable upload
\* with: of a new file into a parent, or of new content for a file.
gd_upload_statuses(b, file_id, parent, created) ==
    IF created THEN gd_create_statuses(b, parent)
    ELSE (IF Live(b, file_id) THEN {200} ELSE {404}) \cup FailureStatuses

\* The statuses the backend answers the listing of a file's revisions
\* with: 403 when the caller may not view the history.
gd_revisions_statuses(b, file_id) ==
    (IF Live(b, file_id) THEN {200, 403} ELSE {404}) \cup FailureStatuses

\* The statuses the backend answers the request for a file's fields with:
\* 403 when the caller may not read the file.
gd_fields_statuses(b, file_id) ==
    (IF Live(b, file_id) THEN {200, 403} ELSE {404}) \cup FailureStatuses

\* The statuses the backend answers the request for one revision of a file
\* with: 404 when the file has no such revision, 403 when the caller may not
\* view the history.
gd_revision_statuses(b, file_id) ==
    (IF Live(b, file_id) THEN {200, 403, 404} ELSE {404}) \cup FailureStatuses

\* The statuses the backend can answer request r with, and the backend
\* after it answered: a DELETE answered 200 has removed the file and what
\* is below it, a creation or a copy answered 200 has added the entity, an
\* update answered 200 has renamed and moved it.
gd_statuses(b, r) ==
    CASE r.method = "DELETE" -> gd_delete_statuses(b, r.id)
      [] r.kind = "create"   -> gd_create_statuses(b, r.id)
      [] r.kind = "update"   -> gd_update_statuses(b, r.id, r.q.parent)
      [] r.kind = "copy"     -> gd_copy_statuses(b, r.id, r.q.parent)
      [] r.kind \in {"upload_start", "upload_finish"}
                             -> gd_upload_statuses(b, r.id, r.q.parent, r.q.created)
      [] r.kind = "revisions" -> gd_revisions_statuses(b, r.id)
      [] r.kind = "revision"  -> gd_revision_statuses(b, r.id)
      [] r.kind = "fields"    -> gd_fields_statuses(b, r.id)
      [] OTHER               -> gd_file_statuses(b, r.id)

gd_after(b, r, status) ==
    CASE status # 200         -> b
      [] r.method = "DELETE"  -> RemoveSubtree(b, r.id, FALSE)
      [] r.kind = "create"    -> gd_after_create(b, r.id, r.q.name, ~r.q.folder)
      [] r.kind = "update"    -> gd_after_update(b, r.id, r.q.parent, r.q.name)
      [] r.kind = "copy"      -> gd_after_create(b, r.q.parent, r.q.name, TRUE)
      [] r.kind = "upload_finish" /\ r.q.created
                              -> gd_after_create(b, r.q.parent, r.q.name, TRUE)
      [] OTHER                -> b

\* The id and name in the body of a 200 response to request r.
gd_data(b, r) ==
    [ id   |-> IF r.kind = "update" THEN r.id ELSE gd_new_id(b),
      name |-> r.q.name ]

\* GoogleDriveInstitutionsPath('/'.join(names), _ids=ids, folder=...): the
\* name of every part is read under the key 'name'.
gd_return_path(parts) ==
    IF \E k \in 1..Len(parts) : ~parts[k].named
    THEN Raised("KeyError", 0, << "name" >>)
    ELSE LET s   == JoinSlash([ k \in 1..Len(parts) |-> Quote(parts[k].name) ])
             ids == [ k \in 1..Len(parts) |-> parts[k].id ]
         IN  IF ValidPathString(s)
             THEN Returned(MkPath(s, ids, HasFolderInMime(parts[Len(parts)].mimeType)))
             ELSE InvalidPathError(s)

\* What validate_v1_path / validate_path do with the resolved parts.
gd_after_resolve(name, s, parts) ==
    LET last == parts[Len(parts)]
    IN  IF name = "validate_v1_path"
           /\ (last.id = None
               \/ EndsWithSlash(s) # (last.mimeType = FOLDER_MIME_TYPE))
        THEN NotFoundError(s)
        ELSE gd_return_path(parts)

gd_validate_path_call(name, s) ==
    /\ prov = "googledrive"
    /\ Begin(name, s, NoPath, 0)
    /\ IF s = << "/" >>
       THEN /\ FinishAtOnce(Returned(MkPath(s, << RootId >>, TRUE)))
            /\ loc' = NoLocals
       ELSE /\ FirstSend(gd_parents_request(RootId), "gd_parents_recv")
            /\ loc' = [ ret     |-> << gd_root_part >>,
                        file_id |-> RootId,
                        parts   |-> gd_parts(s) ]
    /\ UNCHANGED <<prov, backend>>

\* while parts: the parents of file_id have been requested; on their
\* arrival the next part is popped and the name query for it is issued.
gd_resolve_parents_recv(status) ==
    LET r == Awaited
    IN  /\ pc = "gd_parents_recv"
        /\ status \in gd_statuses(backend, r)
        /\ backend' = gd_after(backend, r, status)
        /\ IF Unexpected(status, {200})
           THEN ReceiveFinish(r, status, Raised("MetadataError", status, NoMsg))
           ELSE ReceiveSend(r, status, gd_query_request(loc.file_id, Head(loc.parts)),
                            "gd_query_recv")
        /\ UNCHANGED <<frame, loc>>

\* The answer to the name query: the first file found becomes file_id and
\* its id, name and mimeType are requested; when none is found the call
\* ends.
gd_resolve_query_recv(status) ==
    LET part  == Head(loc.parts)
        rest  == Tail(loc.parts)
        r     == Awaited
        files == gd_query_files(backend, r.id, r.q)
    IN  /\ pc = "gd_query_recv"
        /\ status \in gd_statuses(backend, r)
        /\ backend' = gd_after(backend, r, status)
        /\ IF Unexpected(status, {200})
           THEN /\ ReceiveFinish(r, status, Raised("MetadataError", status, NoMsg))
                /\ loc' = loc
           ELSE IF Len(files) = 0
           THEN /\ loc' = [loc EXCEPT !.parts = rest]
                /\ ReceiveFinish(r, status,
                      IF Len(rest) > 0
                      THEN Raised("MetadataError", 404, argStr \o << " not found" >>)
                      ELSE gd_after_resolve(op, argStr,
                                            Append(loc.ret, gd_missing_part(part))))
           ELSE /\ loc' = [loc EXCEPT !.parts = rest, !.file_id = files[1]]
                /\ ReceiveSend(r, status, gd_meta_request(files[1]), "gd_meta_recv")
        /\ UNCHANGED frame

\* The id, name and mimeType of the file found are appended to ret; the
\* loop goes on with the next part, or the call ends.
gd_resolve_meta_recv(status) ==
    LET r   == Awaited
        id  == r.id
        ret == Append(loc.ret, gd_part(id, backend[id].name, gd_mime(backend, id), TRUE))
    IN  /\ pc = "gd_meta_recv"
        /\ status \in gd_statuses(backend, r)
        /\ backend' = gd_after(backend, r, status)
        /\ IF Unexpected(status, {200})
           THEN /\ ReceiveFinish(r, status, Raised("MetadataError", status, NoMsg))
                /\ loc' = loc
           ELSE /\ loc' = [loc EXCEPT !.ret = ret]
                /\ IF Len(loc.parts) > 0
                   THEN ReceiveSend(r, status, gd_parents_request(id), "gd_parents_recv")
                   ELSE ReceiveFinish(r, status, gd_after_resolve(op, argStr, ret))
        /\ UNCHANGED frame

(***************************************************************************)
(* Google Drive: delete and _delete_folder_contents                        *)
(***************************************************************************)
\* GET files?q='<file_id>' in parents&fields=files(id)
gd_list_request(file_id) == Req("GET", "list", file_id, << >>, NoQuery)

\* DELETE files/<file_id>
gd_delete_request(file_id) == Req("DELETE", "file", file_id, << >>, NoQuery)

\* delete(path, confirm_delete) up to its first request.
gd_delete_call(confirm) ==
    /\ prov = "googledrive"
    /\ held # NoPath
    /\ Begin("delete", << >>, held, confirm)
    /\ IF Identifier(held) = None
       THEN FinishAtOnce(NotFoundError(PathStr(held))) /\ loc' = NoLocals
       ELSE IF IsRoot(held)
       THEN IF confirm = 1
            THEN /\ FirstSend(gd_list_request(Identifier(held)), "gd_delete_list_recv")
                 /\ loc' = [ child_ids |-> << >> ]
            ELSE FinishAtOnce(Raised("DeleteError", 400, NoMsg)) /\ loc' = NoLocals
       ELSE /\ FirstSend(gd_delete_request(Identifier(held)), "gd_delete_recv")
            /\ loc' = NoLocals
    /\ UNCHANGED <<prov, backend>>

\* delete of a path that is not the root: the DELETE is answered.
gd_delete_recv(status) ==
    LET r == Awaited
    IN  /\ pc = "gd_delete_recv"
        /\ status \in gd_statuses(backend, r)
        /\ backend' = gd_after(backend, r, status)
        /\ ReceiveFinish(r, status,
              IF Unexpected(status, {200})
              THEN Raised("DeleteError", status, NoMsg)
              ELSE ReturnedNone)
        /\ UNCHANGED <<frame, loc>>

\* _delete_folder_contents: the children of the folder are listed and the
\* DELETE of the first is issued.
gd_delete_folder_contents_list_recv(status) ==
    LET r         == Awaited
        child_ids == ChildrenOf(backend, r.id)
    IN  /\ pc = "gd_delete_list_recv"
        /\ status \in gd_statuses(backend, r)
        /\ backend' = gd_after(backend, r, status)
        /\ IF Unexpected(status, {200})
           THEN /\ ReceiveFinish(r, status, Raised("MetadataError", status, NoMsg))
                /\ loc' = loc
           ELSE IF Len(child_ids) = 0
           THEN /\ ReceiveFinish(r, status, ReturnedNone)
                /\ loc' = loc
           ELSE /\ ReceiveSend(r, status, gd_delete_request(Head(child_ids)),
                               "gd_delete_child_recv")
                /\ loc' = [ child_ids |-> child_ids ]
        /\ UNCHANGED frame

\* for child in child_ids: the DELETE of a child is answered and the DELETE
\* of the next is issued.
gd_delete_folder_contents_child_recv(status) ==
    LET child == Head(loc.child_ids)
        rest  == Tail(loc.child_ids)
        r     == Awaited
    IN  /\ pc = "gd_delete_child_recv"
        /\ status \in gd_statuses(backend, r)
        /\ backend' = gd_after(backend, r, status)
        /\ IF Unexpected(status, {200})
           THEN /\ ReceiveFinish(r, status, Raised("DeleteError", status, NoMsg))
                /\ loc' = loc
           ELSE IF Len(rest) = 0
           THEN /\ ReceiveFinish(r, status, ReturnedNone)
                /\ loc' = [ child_ids |-> rest ]
           ELSE /\ ReceiveSend(r, status, gd_delete_request(Head(rest)),
                               "gd_delete_child_recv")
                /\ loc' = [ child_ids |-> rest ]
        /\ UNCHANGED frame

(***************************************************************************)
(* Google Drive: create_folder                                             *)
(***************************************************************************)
\* POST files with the name, the parent and the folder mime type.
gd_create_folder_request(p) ==
    Req("POST", "create", ParentIdentifier(p), << >>,
        [ name |-> PathName(p), folder |-> TRUE ])

\* create_folder(path, folder_precheck) up to the POST request.
gd_create_folder_call(folder_precheck) ==
    /\ prov = "googledrive"
    /\ held # NoPath
    /\ Begin("create_folder", << >>, held, 0)
    /\ loc' = [ folder_precheck |-> folder_precheck ]
    /\ IF ~validate_folder(held)
       THEN FinishAtOnce(Raised("CreateFolderError", 400, NoMsg))
       ELSE IF folder_precheck /\ Identifier(held) # None
       THEN FinishAtOnce(Raised("FolderNamingConflict", 409, PathName(held)))
       ELSE IF IsRoot(held)
       THEN FinishAtOnce(Raised("AttributeError", 0, << "identifier" >>))
       ELSE FirstSend(gd_create_folder_request(held), "gd_create_folder_recv")
    /\ UNCHANGED <<prov, backend>>

\* The POST is answered: the folder's metadata is built from the response
\* and the path.
gd_create_folder_recv(status) ==
    LET r    == Awaited
        data == [ id |-> gd_new_id(backend), name |-> r.q.name ]
    IN  /\ pc = "gd_create_folder_recv"
        /\ status \in gd_statuses(backend, r)
        /\ backend' = gd_after(backend, r, status)
        /\ ReceiveFinish(r, status,
              IF Unexpected(status, {200})
              THEN Raised("CreateFolderError", status, NoMsg)
              ELSE ReturnedMetadata(MetadataOf("folder", data.id, data.name, argPath)))
        /\ UNCHANGED <<frame, loc>>

(***************************************************************************)
(* Google Drive: intra_move and intra_copy                                 *)
(***************************************************************************)
\* The path of a live entity, with its identifiers where the provider
\* keeps them: the source path of a move or copy.
RECURSIVE EntityNames(_, _)
EntityNames(b, id) ==
    IF id = RootId THEN << >> ELSE Append(EntityNames(b, b[id].parent), b[id].name)

RECURSIVE EntityIds(_, _)
EntityIds(b, id) ==
    IF id = RootId THEN << RootId >> ELSE Append(EntityIds(b, b[id].parent), id)

EntityPath(p, b, id) ==
    MkPath(<< "/" >> \o JoinSlash(EntityNames(b, id))
               \o (IF b[id].isFile THEN << >> ELSE << "/" >>),
           IF p = "fedora" THEN << >> ELSE EntityIds(b, id),
           ~b[id].isFile)

\* UPDATE files/<src id> with the new parent and name.
gd_move_request(src_path, dest_path) ==
    Req("UPDATE", "update", Identifier(src_path), << >>,
        [ name |-> PathName(dest_path), folder |-> IsDir(dest_path),
          parent |-> ParentIdentifier(dest_path) ])

\* POST files/<src id>/copy with the new parent and name.
gd_copy_request(src_path, dest_path) ==
    Req("POST", "copy", Identifier(src_path), << >>,
        [ name |-> PathName(dest_path), folder |-> IsDir(dest_path),
          parent |-> ParentIdentifier(dest_path) ])

gd_intra_request(name, src_path, dest_path) ==
    IF name = "intra_move" THEN gd_move_request(src_path, dest_path)
    ELSE gd_copy_request(src_path, dest_path)

\* The destination is never deleted.
gd_intra_delete_first_never(dest_path) == FALSE

\* if dest_path.identifier: the destination is deleted first.
gd_intra_delete_first(dest_path) == Identifier(dest_path) # None

\* GET files?q='<file_id>' in parents&fields=nextPageToken,files
gd_children_request(file_id) == Req("GET", "children", file_id, << >>, NoQuery)

\* intra_move / intra_copy(dest_provider, src_path, dest_path) up to their
\* first request: the DELETE of delete(dest_path) when the destination has
\* an identifier, the move or copy request when it has none.
gd_intra_call(name, src) ==
    LET src_path == EntityPath(prov, backend, src)
    IN  /\ prov = "googledrive"
        /\ held # NoPath
        /\ name \in {"intra_move", "intra_copy"}
        /\ Live(backend, src)
        /\ Begin(name, << >>, held, 0)
        /\ loc' = [ src_path |-> src_path, dest_path |-> held, created |-> FALSE,
                    data |-> [ id |-> None, name |-> << >> ] ]
        /\ IF gd_intra_delete_first(held)
           THEN IF IsRoot(held)
                THEN FinishAtOnce(Raised("DeleteError", 400, NoMsg))
                ELSE FirstSend(gd_delete_request(Identifier(held)), "gd_intra_delete_recv")
           ELSE FirstSend(gd_intra_request(name, src_path, held), "gd_intra_recv")
        /\ UNCHANGED <<prov, backend>>

\* A refused delete of the destination is passed over and the move or copy
\* request is issued all the same.
gd_intra_delete_refused_ignored(r, status) ==
    ReceiveSend(r, status, gd_intra_request(op, loc.src_path, argPath), "gd_intra_recv")

\* await dest_provider.delete(dest_path) raises: the DeleteError of
\* delete's request (expects=(200, ), throws=exceptions.DeleteError)
\* leaves intra_move / intra_copy at that await.
gd_intra_delete_refused(r, status) ==
    ReceiveFinish(r, status, Raised("DeleteError", status, NoMsg))

\* delete(dest_path) is answered; the move or copy request is issued.
gd_intra_delete_recv(status) ==
    LET r == Awaited
    IN  /\ pc = "gd_intra_delete_recv"
        /\ status \in gd_statuses(backend, r)
        /\ backend' = gd_after(backend, r, status)
        /\ IF Unexpected(status, {200})
           THEN gd_intra_delete_refused(r, status)
           ELSE ReceiveSend(r, status, gd_intra_request(op, loc.src_path, argPath),
                            "gd_intra_recv")
        /\ UNCHANGED <<frame, loc>>

\* intra_move: dest_path.parts[-1]._id = data['id']; intra_copy leaves the
\* destination path as it was handed in.
gd_intra_dest_path(name, dest_path, data) ==
    IF name = "intra_move" THEN SetIdentifier(dest_path, data.id) ELSE dest_path

\* Every move or copy counts as a creation.
gd_intra_created_always(dest_path) == TRUE

\* created = dest_path.identifier is None, read before the identifier of
\* the destination path is assigned.
gd_intra_created(dest_path) == Identifier(dest_path) = None

\* The move or copy request is answered: created is read off the
\* destination path and the metadata is built from the response and the
\* destination path; a moved folder's children are listed.
gd_intra_recv(status) ==
    LET r         == Awaited
        data      == gd_data(backend, r)
        created   == gd_intra_created(argPath)
        dest_path == gd_intra_dest_path(op, argPath, data)
    IN  /\ pc = "gd_intra_recv"
        /\ status \in gd_statuses(backend, r)
        /\ backend' = gd_after(backend, r, status)
        /\ IF Unexpected(status, {200})
           THEN /\ ReceiveFinish(r, status, Raised("IntraMoveError", status, NoMsg))
                /\ loc' = loc
           ELSE IF op = "intra_move" /\ IsDir(dest_path)
           THEN /\ ReceiveSend(r, status, gd_children_request(Identifier(dest_path)),
                               "gd_intra_children_recv")
                /\ loc' = [ loc EXCEPT !.dest_path = dest_path, !.created = created,
                                       !.data = data ]
           ELSE /\ ReceiveFinish(r, status,
                      ReturnedPair(MetadataOf("file", data.id, data.name, dest_path),
                                   created))
                /\ loc' = [ loc EXCEPT !.dest_path = dest_path, !.created = created,
                                       !.data = data ]
        /\ UNCHANGED frame

\* _folder_metadata(dest_path): the listing of the moved folder is
\* answered. Each item is read under the key 'files' and the page token
\* under the key 'nextPageToken', which the body may not carry.
gd_intra_children_recv(status, has_token) ==
    LET r == Awaited
    IN  /\ pc = "gd_intra_children_recv"
        /\ status \in gd_statuses(backend, r)
        /\ backend' = gd_after(backend, r, status)
        /\ ReceiveFinish(r, status,
              IF Unexpected(status, {200})
              THEN Raised("MetadataError", status, NoMsg)
              ELSE IF Len(ChildrenOf(backend, r.id)) > 0
              THEN Raised("KeyError", 0, << "files" >>)
              ELSE IF ~has_token
              THEN Raised("KeyError", 0, << "nextPageToken" >>)
              ELSE ReturnedPair(MetadataOf("folder", loc.data.id, loc.data.name,
                                           loc.dest_path),
                                loc.created))
        /\ UNCHANGED <<frame, loc>>

(***************************************************************************)
(* Google Drive: upload                                                    *)
(***************************************************************************)
\* stream.writers['md5'].hexdigest: the checksum computed over the stream,
\* and the checksums a backend can report for what it stored.
LocalChecksum == "md5 of the stream"

Checksums == {LocalChecksum, "md5 of other content"}

\* Every upload is started as the upload of a new file.
gd_upload_start_request_as_new(p) ==
    Req("POST", "upload_start", None, << >>,
        [ name |-> PathName(p), folder |-> FALSE, parent |-> ParentIdentifier(p),
          created |-> TRUE ])

\* _start_resumable_upload: POST for a new file, PUT for an existing one.
gd_upload_start_request(p) ==
    Req(IF Identifier(p) = None THEN "POST" ELSE "PUT", "upload_start",
        Identifier(p), << >>,
        [ name |-> PathName(p), folder |-> FALSE, parent |-> ParentIdentifier(p),
          created |-> Identifier(p) = None ])

\* _finish_resumable_upload: PUT location.
gd_upload_finish_request(start) == [ start EXCEPT !.method = "PUT", !.kind = "upload_finish" ]

\* data['md5Checksum'] != stream.writers['md5'].hexdigest
gd_upload_checksum_mismatch(data, local) == data.md5Checksum # local

\* upload(stream, path) up to the request of _start_resumable_upload.
gd_upload_call ==
    /\ prov = "googledrive"
    /\ held # NoPath
    /\ Begin("upload", << >>, held, 0)
    /\ loc' = [ reported |-> None, path |-> held ]
    /\ IF IsDir(held)
       THEN FinishAtOnce(Raised("AssertionError", 0, NoMsg))
       ELSE FirstSend(gd_upload_start_request(held), "gd_upload_start_recv")
    /\ UNCHANGED <<prov, backend>>

\* The upload session is opened; the stream is sent to its location.
gd_upload_start_recv(status) ==
    LET r == Awaited
    IN  /\ pc = "gd_upload_start_recv"
        /\ status \in gd_statuses(backend, r)
        /\ backend' = gd_after(backend, r, status)
        /\ IF Unexpected(status, {200})
           THEN ReceiveFinish(r, status, Raised("UploadError", status, NoMsg))
           ELSE ReceiveSend(r, status, gd_upload_finish_request(r), "gd_upload_finish_recv")
        /\ UNCHANGED <<frame, loc>>

\* The stream was sent: the backend reports the file it stored and its
\* checksum, which is compared with the local one. When they agree,
\* path._parts[-1]._id = data.get('id') is written on the path handed in.
gd_upload_finish_recv(status, reported) ==
    LET r       == Awaited
        data    == [ id          |-> IF r.q.created THEN gd_new_id(backend) ELSE r.id,
                     name        |-> r.q.name,
                     md5Checksum |-> reported ]
        created == Identifier(argPath) = None
        path    == SetIdentifier(argPath, data.id)
    IN  /\ pc = "gd_upload_finish_recv"
        /\ status \in gd_statuses(backend, r)
        /\ backend' = gd_after(backend, r, status)
        /\ IF Unexpected(status, {200})
           THEN /\ ReceiveFinish(r, status, Raised("UploadError", status, NoMsg))
                /\ loc' = loc
           ELSE /\ ReceiveFinish(r, status,
                      IF gd_upload_checksum_mismatch(data, LocalChecksum)
                      THEN Raised("UploadChecksumMismatchError", 500, NoMsg)
                      ELSE ReturnedPair(MetadataOf("file", data.id, data.name, path), created))
                /\ loc' = [ reported |-> reported,
                            path     |-> IF gd_upload_checksum_mismatch(data, LocalChecksum)
                                         THEN loc.path ELSE path ]
        /\ UNCHANGED frame

(***************************************************************************)
(* Google Drive: revisions                                                 *)
(***************************************************************************)
\* pd_settings.DRIVE_IGNORE_VERSION: the sentinel that ends a dummy
\* revision id.
DRIVE_IGNORE_VERSION == "DRIVE_IGNORE_VERSION"

\* The modifiedTime the backend reports for a file.
gd_modified_time(file_id) == << "modifiedTime", file_id >>

\* The revision lists a backend can answer with, oldest first.
RevisionLists == { << >>, << << "r1" >> >>, << << "r1" >>, << "r2" >> >> }

\* reversed(l)
Reverse(l) == [ k \in 1..Len(l) |-> l[Len(l) + 1 - k] ]

\* The bodies a backend can answer the request for a file's fields
\* 'ownedByMe,capabilities(canEdit)' with: as the Drive API does, ownedByMe
\* a JSON boolean and canEdit inside capabilities ("drive"); ownedByMe a
\* string and canEdit inside capabilities ("text"); ownedByMe and a
\* top-level canEdit both strings ("flat").
FileBodies == {"drive", "text", "flat"}

\* GET files/<file_id>/revisions
gd_revisions_request(file_id) == Req("GET", "revisions", file_id, << >>, NoQuery)

\* GET files/<file_id>?fields=...,ownedByMe,capabilities(canEdit)
gd_file_metadata_request(file_id) == Req("GET", "fields", file_id, << >>, NoQuery)

\* revisions(path) up to the request of the revision list.
gd_revisions_call ==
    /\ prov = "googledrive"
    /\ held # NoPath
    /\ Begin("revisions", << >>, held, 0)
    /\ loc' = [ revisions |-> << >> ]
    /\ IF Identifier(held) = None
       THEN FinishAtOnce(NotFoundError(PathStr(held)))
       ELSE FirstSend(gd_revisions_request(Identifier(held)), "gd_revisions_recv")
    /\ UNCHANGED <<prov, backend>>

\* The revision list is answered. With a 200 and a list that is not empty
\* the revisions are returned, newest first; otherwise metadata(path,
\* raw=True) is asked for: the listing of a folder, the fields of a file.
gd_revisions_recv(status, revisions) ==
    LET r             == Awaited
        has_revisions == status = 200
    IN  /\ pc = "gd_revisions_recv"
        /\ status \in gd_statuses(backend, r)
        /\ backend' = gd_after(backend, r, status)
        /\ IF Unexpected(status, {200, 403})
           THEN /\ ReceiveFinish(r, status, Raised("RevisionsError", status, NoMsg))
                /\ loc' = loc
           ELSE IF has_revisions /\ Len(revisions) > 0
           THEN /\ ReceiveFinish(r, status, ReturnedList(Reverse(revisions)))
                /\ loc' = [ revisions |-> revisions ]
           ELSE IF IsDir(argPath)
           THEN /\ ReceiveSend(r, status, gd_children_request(r.id), "gd_revisions_folder_recv")
                /\ loc' = loc
           ELSE /\ ReceiveSend(r, status, gd_file_metadata_request(r.id),
                               "gd_revisions_file_recv")
                /\ loc' = loc
        /\ UNCHANGED frame

\* _folder_metadata(path, raw=True) of the fallback: the listing is
\* answered; a list has no key 'modifiedTime'.
gd_revisions_folder_recv(status, has_token) ==
    LET r == Awaited
    IN  /\ pc = "gd_revisions_folder_recv"
        /\ status \in gd_statuses(backend, r)
        /\ backend' = gd_after(backend, r, status)
        /\ ReceiveFinish(r, status,
              IF Unexpected(status, {200})
              THEN Raised("MetadataError", status, NoMsg)
              ELSE IF Len(ChildrenOf(backend, r.id)) > 0
              THEN Raised("KeyError", 0, << "files" >>)
              ELSE IF ~has_token
              THEN Raised("KeyError", 0, << "nextPageToken" >>)
              ELSE Raised("TypeError", 0, << "modifiedTime" >>))
        /\ UNCHANGED <<frame, loc>>

\* 'ownedByMe:' + data['ownedByMe'] + ', canEdit:' + data['canEdit']: a
\* string and a boolean do not add up, and a body without a top-level
\* canEdit has no such key.
gd_user_role(body) ==
    CASE body = "drive" -> "TypeError"
      [] body = "text"  -> "KeyError"
      [] OTHER          -> "ok"

\* Only a 404 counts as not found.
gd_not_found_only_404(status) == status = 404

\* if resp.status != 200: raise exceptions.NotFoundError(path)
gd_not_found(status) == status # 200

\* _file_metadata(path, raw=True) of the fallback: the file's fields are
\* answered; the dummy revision is built from modifiedTime.
gd_revisions_file_recv(status, body) ==
    LET r == Awaited
    IN  /\ pc = "gd_revisions_file_recv"
        /\ status \in gd_statuses(backend, r)
        /\ backend' = gd_after(backend, r, status)
        /\ ReceiveFinish(r, status,
              IF Unexpected(status, {200, 403, 404})
              THEN Raised("MetadataError", status, NoMsg)
              ELSE IF gd_not_found(status)
              THEN NotFoundError(PathStr(argPath))
              ELSE IF gd_user_role(body) # "ok"
              THEN Raised(gd_user_role(body), 0, NoMsg)
              ELSE ReturnedList(<< gd_modified_time(r.id) \o << DRIVE_IGNORE_VERSION >> >>))
        /\ UNCHANGED <<frame, loc>>

(***************************************************************************)
(* Fedora: the repository                                                  *)
(***************************************************************************)
\* The resource a url addresses, found by walking the segments from the
\* repository root: the entity and whether it is live, a tombstone or
\* absent.
RECURSIVE fedora_walk(_, _, _)
fedora_walk(b, cur, segs) ==
    IF Len(segs) = 0 THEN [ id |-> cur, st |-> "live" ]
    ELSE LET hits == { id \in Ids : /\ b[id].parent = cur
                                     /\ b[id].name = Head(segs)
                                     /\ b[id].st \in {"live", "tomb"} }
         IN  IF hits = {} THEN [ id |-> None, st |-> "absent" ]
             ELSE LET id == CHOOSE h \in hits : TRUE
                  IN  IF b[id].st = "tomb"
                      THEN IF Len(segs) = 1 THEN [ id |-> id, st |-> "tomb" ]
                           ELSE [ id |-> None, st |-> "absent" ]
                      ELSE IF Len(segs) > 1 /\ b[id].isFile
                      THEN [ id |-> None, st |-> "absent" ]
                      ELSE fedora_walk(b, id, Tail(segs))

fedora_resource(b, segs) == fedora_walk(b, RootId, segs)

\* HEAD url
fedora_head_statuses(b, segs) ==
    LET r == fedora_resource(b, segs)
    IN  (CASE r.st = "live" -> {200}
           [] r.st = "tomb" -> {410}
           [] OTHER         -> {404}) \cup FailureStatuses

\* Every resource passes for a container.
fedora_is_container_always(b, segs) == TRUE

\* The Link header names the container type.
fedora_is_container(b, segs) ==
    LET r == fedora_resource(b, segs)
    IN  r.id = RootId \/ (r.id \in Ids /\ ~b[r.id].isFile)

\* DELETE url: a live resource becomes a tombstone. What the repository
\* answers to a DELETE of its root is not decided here.
fedora_delete_statuses(b, segs) ==
    LET r == fedora_resource(b, segs)
    IN  (CASE Len(segs) = 0 -> {204, 405}
           [] r.st = "live" -> {204}
           [] r.st = "tomb" -> {410}
           [] OTHER         -> {404}) \cup FailureStatuses

fedora_after_delete(b, segs, status) ==
    LET r == fedora_resource(b, segs)
    IN  IF status # 204 THEN b
        ELSE IF Len(segs) = 0
        THEN [ e \in Ids |-> Gone ]
        ELSE RemoveSubtree(b, r.id, TRUE)

\* DELETE url/fcr:tombstone
fedora_tombstone_statuses(b, segs) ==
    LET r == fedora_resource(b, segs)
    IN  (CASE Len(segs) = 0 -> {204, 404}
           [] r.st = "tomb" -> {204}
           [] OTHER         -> {404}) \cup FailureStatuses

fedora_after_tombstone(b, segs, status) ==
    LET r == fedora_resource(b, segs)
    IN  IF status = 204 /\ Len(segs) > 0
        THEN [ b EXCEPT ![r.id] = Gone ]
        ELSE b

\* The entities the repository can use for a new resource.
FreeIds(b) == { id \in Ids : b[id].st \in {"gone", "free"} }

\* PUT url without a body: a container is created where nothing is, under a
\* live container.
fedora_put_statuses(b, segs) ==
    LET r      == fedora_resource(b, segs)
        parent == IF Len(segs) = 0 THEN r
                  ELSE fedora_resource(b, SubSeq(segs, 1, Len(segs) - 1))
    IN  (CASE r.st = "live" -> {409}
           [] r.st = "tomb" -> {410}
           [] parent.st # "live" \/ ~fedora_is_container(b, SubSeq(segs, 1, Len(segs) - 1))
                            -> {409}
           [] FreeIds(b) = {} -> {}
           [] OTHER         -> {201}) \cup FailureStatuses

fedora_after_put(b, segs, status) ==
    IF status # 201 THEN b
    ELSE LET id     == CHOOSE f \in FreeIds(b) : TRUE
             parent == fedora_resource(b, SubSeq(segs, 1, Len(segs) - 1))
         IN  [ b EXCEPT ![id] = [ name   |-> segs[Len(segs)],
                                  parent |-> parent.id,
                                  isFile |-> FALSE,
                                  st     |-> "live" ] ]

\* PUT url with a body and a Content-Type: a binary is created where
\* nothing is; the content of a binary that is there is replaced (204).
fedora_put_binary_statuses(b, segs) ==
    LET r == fedora_resource(b, segs)
    IN  IF r.st = "live" /\ r.id # RootId /\ b[r.id].isFile
        THEN {204} \cup FailureStatuses
        ELSE fedora_put_statuses(b, segs)

fedora_after_put_binary(b, segs, status) ==
    IF status # 201 THEN b
    ELSE LET id == CHOOSE f \in FreeIds(b) : TRUE
         IN  [ fedora_after_put(b, segs, status) EXCEPT ![id].isFile = TRUE ]

\* COPY / MOVE url with a Destination header: the source is live, nothing
\* is at the destination, the destination's parent is a live container
\* that is not the source or below it. A copy takes an entity for every
\* resource copied, a move takes one for the tombstone it leaves.
fedora_transfer_statuses(b, method, segs, dest) ==
    LET src    == fedora_resource(b, segs)
        dst    == fedora_resource(b, dest)
        front  == SubSeq(dest, 1, Len(dest) - 1)
        parent == fedora_resource(b, front)
        needed == IF method = "COPY"
                  THEN Cardinality({ e \in Subtree(b, src.id) : b[e].st # "gone" })
                  ELSE 1
    IN  (CASE Len(segs) = 0 \/ src.st = "absent" -> {404}
           [] src.st = "tomb"                    -> {410}
           [] dst.st # "absent"                  -> {412}
           [] parent.st # "live" \/ ~fedora_is_container(b, front)
                                                 -> {409}
           [] parent.id \in Subtree(b, src.id)   -> {409}
           [] Cardinality(FreeIds(b)) < needed   -> {}
           [] OTHER                              -> {201}) \cup FailureStatuses

fedora_after_transfer(b, method, segs, dest, status) ==
    IF status # 201 THEN b
    ELSE LET src    == fedora_resource(b, segs).id
             parent == fedora_resource(b, SubSeq(dest, 1, Len(dest) - 1)).id
             id     == CHOOSE f \in FreeIds(b) : TRUE
             moved  == [ b[src] EXCEPT !.name = dest[Len(dest)], !.parent = parent ]
         IN  IF method = "COPY"
             THEN [ b EXCEPT ![id] = moved ]
             ELSE [ b EXCEPT ![src] = moved, ![id] = [ b[src] EXCEPT !.st = "tomb" ] ]

\* The statuses the repository can answer request r with, and the
\* repository after it answered.
fedora_statuses(b, r) ==
    CASE r.method = "DELETE" /\ r.kind = "fcr:tombstone" -> fedora_tombstone_statuses(b, r.segs)
      [] r.method = "DELETE" -> fedora_delete_statuses(b, r.segs)
      [] r.method = "PUT" /\ r.kind = "binary" -> fedora_put_binary_statuses(b, r.segs)
      [] r.method = "PUT"    -> fedora_put_statuses(b, r.segs)
      [] r.method \in {"COPY", "MOVE"}
                             -> fedora_transfer_statuses(b, r.method, r.segs, r.q.dest)
      [] OTHER               -> fedora_head_statuses(b, r.segs)

fedora_after(b, r, status) ==
    CASE r.method = "DELETE" /\ r.kind = "fcr:tombstone" -> fedora_after_tombstone(b, r.segs, status)
      [] r.method = "DELETE" -> fedora_after_delete(b, r.segs, status)
      [] r.method = "PUT" /\ r.kind = "binary" -> fedora_after_put_binary(b, r.segs, status)
      [] r.method = "PUT"    -> fedora_after_put(b, r.segs, status)
      [] r.method \in {"COPY", "MOVE"}
                             -> fedora_after_transfer(b, r.method, r.segs, r.q.dest, status)
      [] OTHER               -> b

(***************************************************************************)
(* Fedora: the provider                                                    *)
(***************************************************************************)
\* build_repo_url(path): the repository url followed by the segments of
\* the path.
build_repo_url(p) == Tail(PartNames(p))

fedora_request(method, segs, suffix) == Req(method, suffix, None, segs, NoQuery)

\* validate_path(path): WaterButlerPath(path), no request.
fedora_validate_path_call(s) ==
    /\ prov = "fedora"
    /\ Begin("validate_path", s, NoPath, 0)
    /\ FinishAtOnce(IF ValidPathString(s) THEN Returned(MkPathDefault(s, << >>))
                    ELSE InvalidPathError(s))
    /\ loc' = NoLocals
    /\ UNCHANGED <<prov, backend>>

\* validate_v1_path(path) up to the HEAD request of is_fedora_container.
fedora_validate_v1_path_call(s) ==
    /\ prov = "fedora"
    /\ Begin("validate_v1_path", s, NoPath, 0)
    /\ loc' = NoLocals
    /\ IF ValidPathString(s)
       THEN FirstSend(fedora_request("HEAD", build_repo_url(MkPathDefault(s, << >>)), ""),
                      "fedora_validate_recv")
       ELSE FinishAtOnce(InvalidPathError(s))
    /\ UNCHANGED <<prov, backend>>

\* The HEAD response of is_fedora_container and the rest of
\* validate_v1_path.
fedora_validate_v1_path_recv(status) ==
    LET wb_path == MkPathDefault(argStr, << >>)
        r       == Awaited
        url     == r.segs
    IN  /\ pc = "fedora_validate_recv"
        /\ status \in fedora_statuses(backend, r)
        /\ backend' = fedora_after(backend, r, status)
        /\ ReceiveFinish(r, status,
              IF Unexpected(status, {200, 404})
              THEN Raised("MetadataError", status, NoMsg)
              ELSE IF status = 404
              THEN NotFoundError(JoinSlash(url))
              ELSE IF fedora_is_container(backend, url) = IsDir(wb_path)
              THEN Returned(wb_path)
              ELSE NotFoundError(argStr))
        /\ UNCHANGED <<frame, loc>>

\* The two requests of delete: DELETE url and DELETE url/fcr:tombstone.
fedora_delete_resource_request(p) == fedora_request("DELETE", build_repo_url(p), "")

\* A second request that addresses the resource again.
fedora_delete_tombstone_request_plain(p) ==
    fedora_request("DELETE", build_repo_url(p), "")

fedora_delete_tombstone_request(p) ==
    fedora_request("DELETE", build_repo_url(p), "fcr:tombstone")

\* delete(path, confirm_delete): the DELETE of the resource is issued.
fedora_delete_call(confirm) ==
    /\ prov = "fedora"
    /\ held # NoPath
    /\ Begin("delete", << >>, held, confirm)
    /\ FirstSend(fedora_delete_resource_request(held), "fedora_delete_recv")
    /\ loc' = NoLocals
    /\ UNCHANGED <<prov, backend>>

\* The resource's DELETE is answered; on 204 the DELETE of its tombstone is
\* issued.
fedora_delete_recv(status) ==
    LET r == Awaited
    IN  /\ pc = "fedora_delete_recv"
        /\ status \in fedora_statuses(backend, r)
        /\ backend' = fedora_after(backend, r, status)
        /\ IF Unexpected(status, {204})
           THEN ReceiveFinish(r, status, Raised("DeleteError", status, NoMsg))
           ELSE ReceiveSend(r, status, fedora_delete_tombstone_request(argPath),
                            "fedora_tombstone_recv")
        /\ UNCHANGED <<frame, loc>>

\* The tombstone's DELETE is answered.
fedora_delete_tombstone_recv(status) ==
    LET r == Awaited
    IN  /\ pc = "fedora_tombstone_recv"
        /\ status \in fedora_statuses(backend, r)
        /\ backend' = fedora_after(backend, r, status)
        /\ ReceiveFinish(r, status,
              IF Unexpected(status, {204})
              THEN Raised("DeleteError", status, NoMsg)
              ELSE ReturnedNone)
        /\ UNCHANGED <<frame, loc>>

\* create_folder(path) up to the PUT request.
fedora_create_folder_call ==
    /\ prov = "fedora"
    /\ held # NoPath
    /\ Begin("create_folder", << >>, held, 0)
    /\ IF ~validate_folder(held)
       THEN FinishAtOnce(Raised("CreateFolderError", 400, NoMsg)) /\ loc' = NoLocals
       ELSE /\ FirstSend(fedora_request("PUT", build_repo_url(held), ""),
                         "fedora_create_folder_recv")
            /\ loc' = [ is_container |-> FALSE ]
    /\ UNCHANGED <<prov, backend>>

\* The PUT is answered; lookup_fedora_metadata(path) begins with the HEAD
\* request of is_fedora_container.
fedora_create_folder_recv(status) ==
    LET url == build_repo_url(argPath)
        r   == Awaited
    IN  /\ pc = "fedora_create_folder_recv"
        /\ status \in fedora_statuses(backend, r)
        /\ backend' = fedora_after(backend, r, status)
        /\ IF Unexpected(status, {201})
           THEN ReceiveFinish(r, status, Raised("CreateFolderError", status, NoMsg))
           ELSE ReceiveSend(r, status, fedora_request("HEAD", url, ""),
                            "fedora_lookup_head_recv")
        /\ UNCHANGED <<frame, loc>>

\* fedora_url_to_path(url): WaterButlerPath('/' + url.strip('/')).
fedora_url_to_path(url) == MkPathDefault(<< "/" >> \o JoinSlash(url), << >>)

\* The metadata is looked up under the path the caller asked for.
fedora_lookup_path_requested == argPath

\* The path lookup_fedora_metadata was called with: the recomputed
\* destination in a copy or move.
fedora_lookup_path ==
    IF op \in {"intra_move", "intra_copy"} THEN loc.dest_path ELSE argPath

\* FedoraFolderMetadata.list_children_metadata(repo): one record per
\* resource the container's representation embeds.
fedora_list_children_metadata(b, p) ==
    LET r    == fedora_resource(b, build_repo_url(p))
        kids == IF r.st = "live" THEN ChildrenOf(b, r.id) ELSE << >>
    IN  [ k \in 1..Len(kids) |->
            Metadata(IF b[kids[k]].isFile THEN "file" ELSE "folder",
                     Child(p, b[kids[k]].name, ~b[kids[k]].isFile)) ]

\* What the caller of lookup_fedora_metadata returns: copy, move and upload
\* return the pair (md, True); metadata returns the children of a container.
fedora_lookup_return(md) ==
    IF op \in {"intra_move", "intra_copy", "upload"}
    THEN ReturnedPair(md, TRUE)
    ELSE IF op = "metadata" /\ md.kind = "folder"
    THEN ReturnedList(fedora_list_children_metadata(backend, md.path))
    ELSE ReturnedMetadata(md)

\* lookup_fedora_metadata: the HEAD of is_fedora_container is answered and
\* the representation is requested, of the resource itself for a container
\* and of its fcr:metadata for a binary.
fedora_lookup_head_recv(status) ==
    LET r            == Awaited
        url          == r.segs
        is_container == fedora_is_container(backend, url)
    IN  /\ pc = "fedora_lookup_head_recv"
        /\ status \in fedora_statuses(backend, r)
        /\ backend' = fedora_after(backend, r, status)
        /\ IF Unexpected(status, {200, 404})
           THEN /\ ReceiveFinish(r, status, Raised("MetadataError", status, NoMsg))
                /\ loc' = loc
           ELSE IF status = 404
           THEN /\ ReceiveFinish(r, status, NotFoundError(JoinSlash(url)))
                /\ loc' = loc
           ELSE /\ ReceiveSend(r, status,
                      fedora_request("GET", url, IF is_container THEN "" ELSE "fcr:metadata"),
                      "fedora_lookup_get_recv")
                /\ loc' = [ loc EXCEPT !.is_container = is_container ]
        /\ UNCHANGED frame

\* lookup_fedora_metadata: the representation arrives and the metadata
\* record is built from it.
fedora_lookup_get_recv(status) ==
    LET r == Awaited
    IN  /\ pc = "fedora_lookup_get_recv"
        /\ status \in fedora_statuses(backend, r)
        /\ backend' = fedora_after(backend, r, status)
        /\ ReceiveFinish(r, status,
              IF Unexpected(status, {200, 404})
              THEN Raised("MetadataError", status, NoMsg)
              ELSE IF status = 404
              THEN NotFoundError(PathStr(fedora_lookup_path))
              ELSE fedora_lookup_return(
                      Metadata(IF loc.is_container THEN "folder" ELSE "file",
                               fedora_lookup_path)))
        /\ UNCHANGED <<frame, loc>>

(***************************************************************************)
(* Fedora: intra_copy and intra_move                                       *)
(***************************************************************************)
\* COPY / MOVE src_url with the header Destination: dest_url.
fedora_transfer_request(method, src_url, dest_url) ==
    Req(method, "", None, src_url, [ dest |-> dest_url ])

\* intra_copy / intra_move(dest_provider, src_path, dest_path) up to the
\* COPY or MOVE request.
fedora_intra_call(name, src) ==
    LET src_path == EntityPath(prov, backend, src)
    IN  /\ prov = "fedora"
        /\ held # NoPath
        /\ name \in {"intra_move", "intra_copy"}
        /\ Live(backend, src)
        /\ Begin(name, << >>, held, 0)
        /\ loc' = [ src_path |-> src_path, dest_path |-> held, is_container |-> FALSE ]
        /\ FirstSend(fedora_transfer_request(IF name = "intra_move" THEN "MOVE" ELSE "COPY",
                                             build_repo_url(src_path), build_repo_url(held)),
                     "fedora_intra_recv")
        /\ UNCHANGED <<prov, backend>>

\* The COPY or MOVE is answered. A move goes on to delete the tombstone of
\* the source; a copy recomputes the destination path from the Location
\* header and looks its metadata up.
fedora_intra_recv(status) ==
    LET r        == Awaited
        location == r.q.dest
    IN  /\ pc = "fedora_intra_recv"
        /\ status \in fedora_statuses(backend, r)
        /\ backend' = fedora_after(backend, r, status)
        /\ IF Unexpected(status, {201})
           THEN /\ ReceiveFinish(r, status,
                      Raised(IF op = "intra_move" THEN "IntraMoveError" ELSE "IntraCopyError",
                             status, NoMsg))
                /\ loc' = loc
           ELSE IF op = "intra_move"
           THEN /\ ReceiveSend(r, status,
                      fedora_request("DELETE", r.segs, "fcr:tombstone"),
                      "fedora_intra_tombstone_recv")
                /\ loc' = [ loc EXCEPT !.dest_path = fedora_url_to_path(location) ]
           ELSE /\ ReceiveSend(r, status, fedora_request("HEAD", location, ""),
                               "fedora_lookup_head_recv")
                /\ loc' = [ loc EXCEPT !.dest_path = fedora_url_to_path(location) ]
        /\ UNCHANGED frame

\* intra_move: the DELETE of the source's tombstone is answered; the
\* metadata of the destination is looked up.
fedora_intra_tombstone_recv(status) ==
    LET r == Awaited
    IN  /\ pc = "fedora_intra_tombstone_recv"
        /\ status \in fedora_statuses(backend, r)
        /\ backend' = fedora_after(backend, r, status)
        /\ IF Unexpected(status, {204})
           THEN ReceiveFinish(r, status, Raised("DeleteError", status, NoMsg))
           ELSE ReceiveSend(r, status,
                            fedora_request("HEAD", build_repo_url(loc.dest_path), ""),
                            "fedora_lookup_head_recv")
        /\ UNCHANGED <<frame, loc>>

(***************************************************************************)
(* Fedora: upload                                                          *)
(***************************************************************************)
\* PUT url with the stream as its body.
fedora_upload_request(p) == fedora_request("PUT", build_repo_url(p), "binary")

\* upload(stream, path, conflict='replace') up to the first request:
\* handle_name_conflict asks whether the path exists, which looks its
\* metadata up.
fedora_upload_call ==
    /\ prov = "fedora"
    /\ held # NoPath
    /\ Begin("upload", << >>, held, 0)
    /\ loc' = [ is_container |-> FALSE, reported |-> None ]
    /\ FirstSend(fedora_request("HEAD", build_repo_url(held), ""), "fedora_exists_head_recv")
    /\ UNCHANGED <<prov, backend>>

\* exists(path): the HEAD is answered. A 404 means the path does not exist
\* and the PUT is issued; a 200 goes on to the GET of the representation.
fedora_exists_head_recv(status) ==
    LET r   == Awaited
        url == r.segs
    IN  /\ pc = "fedora_exists_head_recv"
        /\ status \in fedora_statuses(backend, r)
        /\ backend' = fedora_after(backend, r, status)
        /\ IF Unexpected(status, {200, 404})
           THEN ReceiveFinish(r, status, Raised("MetadataError", status, NoMsg))
           ELSE IF status = 404
           THEN ReceiveSend(r, status, fedora_upload_request(argPath), "fedora_upload_recv")
           ELSE ReceiveSend(r, status,
                   fedora_request("GET", url,
                                  IF fedora_is_container(backend, url) THEN "" ELSE "fcr:metadata"),
                   "fedora_exists_get_recv")
        /\ UNCHANGED <<frame, loc>>

\* exists(path): the GET is answered; whatever it found, the PUT is issued.
fedora_exists_get_recv(status) ==
    LET r == Awaited
    IN  /\ pc = "fedora_exists_get_recv"
        /\ status \in fedora_statuses(backend, r)
        /\ backend' = fedora_after(backend, r, status)
        /\ IF Unexpected(status, {200, 404})
           THEN ReceiveFinish(r, status, Raised("MetadataError", status, NoMsg))
           ELSE ReceiveSend(r, status, fedora_upload_request(argPath), "fedora_upload_recv")
        /\ UNCHANGED <<frame, loc>>

\* The PUT is answered; the repository has computed the checksum of what it
\* stored. metadata(path) is looked up and returned with True.
fedora_upload_recv(status, reported) ==
    LET r == Awaited
    IN  /\ pc = "fedora_upload_recv"
        /\ status \in fedora_statuses(backend, r)
        /\ backend' = fedora_after(backend, r, status)
        /\ IF Unexpected(status, {201})
           THEN /\ ReceiveFinish(r, status, Raised("UploadError", status, NoMsg))
                /\ loc' = loc
           ELSE /\ ReceiveSend(r, status, fedora_request("HEAD", r.segs, ""),
                               "fedora_lookup_head_recv")
                /\ loc' = [ loc EXCEPT !.reported = reported ]
        /\ UNCHANGED frame

(***************************************************************************)
(* metadata                                                                *)
(***************************************************************************)
\* The most pages a listing is read in, and the most children one page
\* holds.
MaxPages == 3

MaxPageSize == 2

PageSizes == 0..MaxPageSize

\* What a page of a listing says about the next one: the body has no key
\* 'nextPageToken', the key holds nothing, or it holds a token.
PageTokens == {"absent", "empty", "token"}

\* The revision a caller asks file metadata for: none, two revision ids,
\* and revision ids that end with the sentinel.
NoRevision == << >>

Revisions ==
    { NoRevision, << "r1" >>, << "r2" >>,
      << "r1", DRIVE_IGNORE_VERSION >>, << DRIVE_IGNORE_VERSION >> }

\* s.endswith(suffix)
EndsWith(s, suffix) ==
    /\ Len(s) >= Len(suffix)
    /\ SubSeq(s, Len(s) - Len(suffix) + 1, Len(s)) = suffix

\* RushFiles metadata(path) up to its request: the children listing of a
\* folder path, the entity of a file path.
rf_metadata_call ==
    /\ prov = "rushfiles"
    /\ held # NoPath
    /\ Begin("metadata", << >>, held, 0)
    /\ loc' = [ path |-> held ]
    /\ IF Identifier(held) = None
       THEN FinishAtOnce(Raised("MetadataError", 404, PathStr(held)))
       ELSE FirstSend(rf_metadata_request(held), "rf_metadata_recv")
    /\ UNCHANGED <<prov, backend>>

\* _folder_metadata: one record per entry of res['Data'], a file record
\* when IsFile is set and a folder record otherwise, each built with the
\* path of the folder that was listed.
rf_folder_records(data, p) ==
    [ k \in 1..Len(data) |->
        MetadataOf(IF data[k].IsFile THEN "file" ELSE "folder",
                   data[k].InternalName, data[k].PublicName, p) ]

\* RushFilesFolderMetadata.__init__: self._path._is_folder = True, written
\* on the path the record was built with, once per folder record.
rf_folder_record_path(data, p) ==
    IF \E k \in 1..Len(data) : ~data[k].IsFile
    THEN [ p EXCEPT !.folder = TRUE ] ELSE p

\* _folder_metadata / _file_metadata: the request is answered.
rf_metadata_recv(status) ==
    LET r == Awaited
    IN  /\ pc = "rf_metadata_recv"
        /\ status \in rf_statuses(backend, r)
        /\ backend' = rf_after(backend, r, status)
        /\ ReceiveFinish(r, status,
              IF Unexpected(status, {200, 404})
              THEN Raised("MetadataError", status, NoMsg)
              ELSE IF status = 404
              THEN NotFoundError(PathStr(argPath))
              ELSE IF IsDir(argPath)
              THEN ReturnedList(rf_folder_records(rf_children_data(backend, r.id), argPath))
              ELSE ReturnedMetadata(MetadataOf("file", r.id, backend[r.id].name, argPath)))
        /\ loc' = IF status = 200 /\ IsDir(argPath)
                  THEN [ path |-> rf_folder_record_path(rf_children_data(backend, r.id),
                                                        loc.path) ]
                  ELSE loc
        /\ UNCHANGED frame

\* A revision that does not pass for "valid" whatever it is.
gd_valid_revision_any(revision) == revision # NoRevision

\* valid_revision = revision and not
\* revision.endswith(pd_settings.DRIVE_IGNORE_VERSION)
gd_valid_revision(revision) ==
    revision # NoRevision /\ ~EndsWith(revision, << DRIVE_IGNORE_VERSION >>)

\* GET files/<file_id>/revisions/<revision>?fields=...
gd_revision_request(file_id, revision) == Req("GET", "revision", file_id, revision, NoQuery)

\* _file_metadata: the url of a valid revision, or of the file's fields.
gd_file_metadata_url(p, revision) ==
    IF gd_valid_revision(revision)
    THEN gd_revision_request(Identifier(p), revision)
    ELSE gd_file_metadata_request(Identifier(p))

\* _file_metadata once its request is answered with a status and a body.
\* The files of the backend are no Google docs, so no revision list is
\* fetched for them.
gd_file_metadata_result(p, revision, status, body, name) ==
    IF Unexpected(status, {200, 403, 404})
    THEN Raised("MetadataError", status, NoMsg)
    ELSE IF gd_not_found(status)
    THEN NotFoundError(PathStr(p))
    ELSE IF gd_valid_revision(revision)
    THEN ReturnedMetadata(MetadataOf("revision", Identifier(p), name, p))
    ELSE IF gd_user_role(body) # "ok"
    THEN Raised(gd_user_role(body), 0, NoMsg)
    ELSE ReturnedMetadata(MetadataOf("file", Identifier(p), name, p))

\* GET files?q='<file_id>' in parents&pageSize=1000&fields=nextPageToken,files
\* with the page token of the page before, if there was one.
gd_page_request(file_id, pageToken) ==
    Req("GET", "children", file_id, << >>, [ pageToken |-> pageToken ])

\* Google Drive metadata(path, revision=revision) up to its first request.
gd_metadata_call(revision) ==
    /\ prov = "googledrive"
    /\ held # NoPath
    /\ Begin("metadata", << >>, held, 0)
    /\ loc' = [ revision |-> revision, body |-> "", pages |-> << >>, tokens |-> << >> ]
    /\ IF Identifier(held) = None
       THEN FinishAtOnce(Raised("MetadataError", 404, PathStr(held)))
       ELSE IF IsDir(held)
       THEN FirstSend(gd_page_request(Identifier(held), 0), "gd_folder_metadata_recv")
       ELSE FirstSend(gd_file_metadata_url(held, revision), "gd_file_metadata_recv")
    /\ UNCHANGED <<prov, backend>>

\* The pages of a listing, one after the other.
RECURSIVE Flatten(_)
Flatten(pages) ==
    IF Len(pages) = 0 THEN << >> ELSE Head(pages) \o Flatten(Tail(pages))

\* How many children the pages answered so far have served.
gd_served(pages) == Len(Flatten(pages))

\* _folder_metadata: a page of the listing is answered, holding the next n
\* children; the body's token says whether a page follows. Every item of
\* resp_json['files'] is read under the key 'files', which a file resource
\* does not have, and the token under the key 'nextPageToken'.
gd_folder_metadata_recv(status, n, token) ==
    LET r        == Awaited
        children == ChildrenOf(backend, r.id)
        served   == gd_served(loc.pages)
        rest     == Len(children) - served
        page     == SubSeq(children, served + 1, served + n)
        pages    == Append(loc.pages, page)
        next     == IF token = "token" THEN Len(pages) ELSE 0
    IN  /\ pc = "gd_folder_metadata_recv"
        /\ status \in gd_statuses(backend, r)
        /\ backend' = gd_after(backend, r, status)
        /\ n <= rest
        /\ (n = 0 /\ rest > 0) => Len(pages) < MaxPages
        /\ token = "token" <=> n < rest
        /\ IF Unexpected(status, {200})
           THEN /\ ReceiveFinish(r, status, Raised("MetadataError", status, NoMsg))
                /\ loc' = loc
           ELSE /\ loc' = [ loc EXCEPT !.pages = pages, !.tokens = Append(@, token) ]
                /\ IF n > 0
                   THEN ReceiveFinish(r, status, Raised("KeyError", 0, << "files" >>))
                   ELSE IF token = "absent"
                   THEN ReceiveFinish(r, status, Raised("KeyError", 0, << "nextPageToken" >>))
                   ELSE IF token = "token"
                   THEN ReceiveSend(r, status, gd_page_request(r.id, next),
                                    "gd_folder_metadata_recv")
                   ELSE ReceiveFinish(r, status, ReturnedList(<< >>))
        /\ UNCHANGED frame

\* _file_metadata: the request is answered.
gd_file_metadata_recv(status, body) ==
    LET r == Awaited
    IN  /\ pc = "gd_file_metadata_recv"
        /\ status \in gd_statuses(backend, r)
        /\ backend' = gd_after(backend, r, status)
        /\ loc' = [ loc EXCEPT !.body = body ]
        /\ ReceiveFinish(r, status,
              gd_file_metadata_result(argPath, loc.revision, status, body,
                                      backend[r.id].name))
        /\ UNCHANGED frame

\* Fedora metadata(path) up to the HEAD request of is_fedora_container.
fedora_metadata_call ==
    /\ prov = "fedora"
    /\ held # NoPath
    /\ Begin("metadata", << >>, held, 0)
    /\ loc' = [ is_container |-> FALSE ]
    /\ FirstSend(fedora_request("HEAD", build_repo_url(held), ""), "fedora_lookup_head_recv")
    /\ UNCHANGED <<prov, backend>>

(***************************************************************************)
(* can_intra_move and can_intra_copy                                       *)
(***************************************************************************)
\* A provider as the capability queries see it: its name and the
\* credentials and settings it was built with.
ProviderObjects == [ name : Providers, settings : {"own", "else"} ]

Self == [ name |-> prov, settings |-> "own" ]

\* BaseProvider.__eq__: same name, credentials and settings.
provider_eq(a, b) == a = b

\* RushFiles can_intra_move / can_intra_copy: return self == other.
rf_can_intra(self, other) == provider_eq(self, other)

\* Google Drive can_intra_move: return self == other.
gd_can_intra_move(self, other) == provider_eq(self, other)

\* A copy is allowed whatever the path.
gd_can_intra_copy_any_path(self, other, path) == provider_eq(self, other)

\* Google Drive can_intra_copy: return self == other and (path and
\* path.is_file); no path given is None.
gd_can_intra_copy(self, other, path) ==
    provider_eq(self, other) /\ path # NoPath /\ ~IsDir(path)

\* Fedora can_intra_move / can_intra_copy: return self == other.
fedora_can_intra(self, other) == provider_eq(self, other)

CanOps == {"can_intra_move", "can_intra_copy"}

\* can_intra_move(other, path) / can_intra_copy(other, path): the path is
\* the one the caller holds, or none.
can_intra_call(name, other) ==
    /\ name \in CanOps
    /\ Begin(name, << >>, held, 0)
    /\ loc' = [ other |-> other ]
    /\ FinishAtOnce(ReturnedBool(
          CASE prov = "rushfiles" -> rf_can_intra(Self, other)
            [] prov = "fedora"    -> fedora_can_intra(Self, other)
            [] name = "can_intra_move" -> gd_can_intra_move(Self, other)
            [] OTHER              -> gd_can_intra_copy(Self, other, held)))
    /\ UNCHANGED <<prov, backend>>

(***************************************************************************)
(* The caller                                                              *)
(***************************************************************************)
\* The caller takes the outcome of the finished call; a path a validate
\* call returned is what it hands to the next operation.
caller_take ==
    /\ pc = "done"
    /\ pc' = "idle"
    /\ held' = (IF result.st = "ok" /\ op \in {"validate_path", "validate_v1_path"}
                THEN result.val ELSE NoPath)
    /\ op' = "none"
    /\ argStr' = << >>
    /\ argPath' = NoPath
    /\ argConfirm' = 0
    /\ loc' = NoLocals
    /\ inflight' = {}
    /\ log' = << >>
    /\ result' = Pending
    /\ before' = backend
    /\ UNCHANGED <<prov, backend, abandoned>>

\* The caller builds the path of a new entity in the folder whose path it
\* holds: path.child(name, folder=folder).
caller_child(name, folder) ==
    /\ pc = "idle"
    /\ held # NoPath
    /\ IsDir(held)
    /\ (prov = "fedora" \/ Identifier(held) # None)
    /\ Child(held, name, folder).path \in PathStrings
    /\ held' = Child(held, name, folder)
    /\ UNCHANGED <<prov, backend, op, argStr, argPath, argConfirm, pc, loc,
                   inflight, log, result, before, abandoned>>

\* The caller lets go of the result of a call.
caller_drop_result ==
    /\ pc = "done"
    /\ pc' = "idle"
    /\ held' = NoPath
    /\ op' = "none"
    /\ argStr' = << >>
    /\ argPath' = NoPath
    /\ argConfirm' = 0
    /\ loc' = NoLocals
    /\ inflight' = {}
    /\ log' = << >>
    /\ result' = Pending
    /\ before' = backend
    /\ UNCHANGED <<prov, backend, abandoned>>

\* The caller cancels the resolution it awaits: the task ends at its
\* await, its locals are gone with it and the request in flight is
\* dropped.
caller_cancel ==
    /\ pc \notin {"idle", "done"}
    /\ op \in {"validate_path", "validate_v1_path"}
    /\ pc' = "idle"
    /\ held' = NoPath
    /\ op' = "none"
    /\ argStr' = << >>
    /\ argPath' = NoPath
    /\ argConfirm' = 0
    /\ loc' = NoLocals
    /\ inflight' = {}
    /\ log' = << >>
    /\ result' = Pending
    /\ before' = backend
    /\ abandoned' = (IF prov = "rushfiles" THEN loc.current_inter_id ELSE loc.file_id)
    /\ UNCHANGED <<prov, backend>>

\* The caller gives up the path it holds.
caller_drop ==
    /\ pc = "idle"
    /\ held # NoPath
    /\ held' = NoPath
    /\ UNCHANGED <<prov, backend, op, argStr, argPath, argConfirm, pc, loc,
                   inflight, log, result, before, abandoned>>

(***************************************************************************)
(* The specification                                                       *)
(***************************************************************************)
Init ==
    /\ prov \in Providers
    /\ backend \in InitialBackends(prov)
    /\ op = "none"
    /\ argStr = << >>
    /\ argPath = NoPath
    /\ argConfirm = 0
    /\ pc = "idle"
    /\ loc = NoLocals
    /\ held = NoPath
    /\ inflight = {}
    /\ log = << >>
    /\ result = Pending
    /\ before = backend
    /\ abandoned = None

\* Path validation and delete.
Next ==
    \/ \E name \in {"validate_path", "validate_v1_path"}, s \in PathStrings :
          rf_validate_path_call(name, s)
    \/ \E status \in {200} \cup FailureStatuses : rf_validate_path_recv(status)
    \/ \E confirm \in {0, 1} : rf_delete_call(confirm)
    \/ \E status \in {200} \cup FailureStatuses, deleted \in BOOLEAN :
          rf_delete_metadata_recv(status, deleted)
    \/ \E status \in {200} \cup FailureStatuses : rf_delete_recv(status)
    \/ \E name \in {"validate_path", "validate_v1_path"}, s \in PathStrings :
          gd_validate_path_call(name, s)
    \/ \E confirm \in {0, 1} : gd_delete_call(confirm)
    \/ \E status \in {200} \cup FailureStatuses : gd_delete_recv(status)
    \/ \E status \in {200} \cup FailureStatuses : gd_delete_folder_contents_list_recv(status)
    \/ \E status \in {200} \cup FailureStatuses : gd_delete_folder_contents_child_recv(status)
    \/ \E status \in {200} \cup FailureStatuses : gd_resolve_parents_recv(status)
    \/ \E status \in {200} \cup FailureStatuses : gd_resolve_query_recv(status)
    \/ \E status \in {200} \cup FailureStatuses : gd_resolve_meta_recv(status)
    \/ \E s \in PathStrings : fedora_validate_path_call(s)
    \/ \E s \in PathStrings : fedora_validate_v1_path_call(s)
    \/ \E status \in {200, 410} \cup FailureStatuses : fedora_validate_v1_path_recv(status)
    \/ \E confirm \in {0, 1} : fedora_delete_call(confirm)
    \/ \E status \in {204, 405, 410} \cup FailureStatuses : fedora_delete_recv(status)
    \/ \E status \in {204} \cup FailureStatuses : fedora_delete_tombstone_recv(status)
    \/ fedora_create_folder_call
    \/ \E status \in {201, 409, 410} \cup FailureStatuses : fedora_create_folder_recv(status)
    \/ \E status \in {200, 410} \cup FailureStatuses : fedora_lookup_head_recv(status)
    \/ \E status \in {200, 410} \cup FailureStatuses : fedora_lookup_get_recv(status)
    \/ caller_take
    \/ caller_drop

Spec == Init /\ [][Next]_vars

\* validate_path, the paths of new entities, and create_folder.
NextFolders ==
    \/ \E s \in PathStrings : rf_validate_path_call("validate_path", s)
    \/ \E status \in {200} \cup FailureStatuses : rf_validate_path_recv(status)
    \/ rf_not_implemented_call("create_folder")
    \/ \E s \in PathStrings : gd_validate_path_call("validate_path", s)
    \/ \E status \in {200} \cup FailureStatuses : gd_resolve_parents_recv(status)
    \/ \E status \in {200} \cup FailureStatuses : gd_resolve_query_recv(status)
    \/ \E status \in {200} \cup FailureStatuses : gd_resolve_meta_recv(status)
    \/ \E folder_precheck \in BOOLEAN : gd_create_folder_call(folder_precheck)
    \/ \E status \in {200} \cup FailureStatuses : gd_create_folder_recv(status)
    \/ \E s \in PathStrings : fedora_validate_path_call(s)
    \/ fedora_create_folder_call
    \/ \E status \in {201, 409, 410} \cup FailureStatuses : fedora_create_folder_recv(status)
    \/ \E status \in {200, 410} \cup FailureStatuses : fedora_lookup_head_recv(status)
    \/ \E status \in {200, 410} \cup FailureStatuses : fedora_lookup_get_recv(status)
    \/ caller_take
    \/ \E name \in Names, folder \in BOOLEAN : caller_child(name, folder)
    \/ caller_drop

SpecFolders == Init /\ [][NextFolders]_vars

\* validate_path, the paths of new entities, intra_move and intra_copy.
NextTransfer ==
    \/ \E s \in PathStrings : rf_validate_path_call("validate_path", s)
    \/ \E status \in {200} \cup FailureStatuses : rf_validate_path_recv(status)
    \/ \E name \in {"intra_move", "intra_copy"} : rf_not_implemented_call(name)
    \/ \E s \in PathStrings : gd_validate_path_call("validate_path", s)
    \/ \E status \in {200} \cup FailureStatuses : gd_resolve_parents_recv(status)
    \/ \E status \in {200} \cup FailureStatuses : gd_resolve_query_recv(status)
    \/ \E status \in {200} \cup FailureStatuses : gd_resolve_meta_recv(status)
    \/ \E name \in {"intra_move", "intra_copy"}, src \in Ids : gd_intra_call(name, src)
    \/ \E status \in {200} \cup FailureStatuses : gd_intra_delete_recv(status)
    \/ \E status \in {200, 403} \cup FailureStatuses : gd_intra_recv(status)
    \/ \E status \in {200} \cup FailureStatuses, has_token \in BOOLEAN :
          gd_intra_children_recv(status, has_token)
    \/ \E s \in PathStrings : fedora_validate_path_call(s)
    \/ \E name \in {"intra_move", "intra_copy"}, src \in Ids : fedora_intra_call(name, src)
    \/ \E status \in {201, 409, 410, 412} \cup FailureStatuses : fedora_intra_recv(status)
    \/ \E status \in {204} \cup FailureStatuses : fedora_intra_tombstone_recv(status)
    \/ \E status \in {200, 410} \cup FailureStatuses : fedora_lookup_head_recv(status)
    \/ \E status \in {200, 410} \cup FailureStatuses : fedora_lookup_get_recv(status)
    \/ \E name \in CanOps, other \in ProviderObjects : can_intra_call(name, other)
    \/ caller_take
    \/ \E name \in Names, folder \in BOOLEAN : caller_child(name, folder)
    \/ caller_drop

SpecTransfer == Init /\ [][NextTransfer]_vars

\* validate_path, the paths of new entities, upload and revisions.
NextFiles ==
    \/ \E s \in PathStrings : rf_validate_path_call("validate_path", s)
    \/ \E status \in {200} \cup FailureStatuses : rf_validate_path_recv(status)
    \/ rf_not_implemented_call("upload")
    \/ \E s \in PathStrings : gd_validate_path_call("validate_path", s)
    \/ \E status \in {200} \cup FailureStatuses : gd_resolve_parents_recv(status)
    \/ \E status \in {200} \cup FailureStatuses : gd_resolve_query_recv(status)
    \/ \E status \in {200} \cup FailureStatuses : gd_resolve_meta_recv(status)
    \/ gd_upload_call
    \/ \E status \in {200} \cup FailureStatuses : gd_upload_start_recv(status)
    \/ \E status \in {200} \cup FailureStatuses, reported \in Checksums :
          gd_upload_finish_recv(status, reported)
    \/ gd_revisions_call
    \/ \E status \in {200, 403} \cup FailureStatuses, revisions \in RevisionLists :
          gd_revisions_recv(status, revisions)
    \/ \E status \in {200} \cup FailureStatuses, has_token \in BOOLEAN :
          gd_revisions_folder_recv(status, has_token)
    \/ \E status \in {200, 403} \cup FailureStatuses, body \in FileBodies :
          gd_revisions_file_recv(status, body)
    \/ \E s \in PathStrings : fedora_validate_path_call(s)
    \/ fedora_upload_call
    \/ \E status \in {200, 410} \cup FailureStatuses : fedora_exists_head_recv(status)
    \/ \E status \in {200, 410} \cup FailureStatuses : fedora_exists_get_recv(status)
    \/ \E status \in {201, 204, 409, 410} \cup FailureStatuses, reported \in Checksums :
          fedora_upload_recv(status, reported)
    \/ \E status \in {200, 410} \cup FailureStatuses : fedora_lookup_head_recv(status)
    \/ \E status \in {200, 410} \cup FailureStatuses : fedora_lookup_get_recv(status)
    \/ caller_take
    \/ \E name \in Names, folder \in BOOLEAN : caller_child(name, folder)
    \/ caller_drop

SpecFiles == Init /\ [][NextFiles]_vars

\* metadata of the three providers, on the paths validation returns.
NextMetadata ==
    \/ \E s \in PathStrings : rf_validate_path_call("validate_path", s)
    \/ \E status \in {200} \cup FailureStatuses : rf_validate_path_recv(status)
    \/ rf_metadata_call
    \/ \E status \in {200} \cup FailureStatuses : rf_metadata_recv(status)
    \/ \E s \in PathStrings : gd_validate_path_call("validate_path", s)
    \/ \E status \in {200} \cup FailureStatuses : gd_resolve_parents_recv(status)
    \/ \E status \in {200} \cup FailureStatuses : gd_resolve_query_recv(status)
    \/ \E status \in {200} \cup FailureStatuses : gd_resolve_meta_recv(status)
    \/ \E revision \in Revisions : gd_metadata_call(revision)
    \/ \E status \in {200} \cup FailureStatuses, n \in PageSizes, token \in PageTokens :
          gd_folder_metadata_recv(status, n, token)
    \/ \E status \in {200, 403} \cup FailureStatuses, body \in FileBodies :
          gd_file_metadata_recv(status, body)
    \/ \E s \in PathStrings : fedora_validate_path_call(s)
    \/ fedora_metadata_call
    \/ \E status \in {200, 410} \cup FailureStatuses : fedora_lookup_head_recv(status)
    \/ \E status \in {200, 410} \cup FailureStatuses : fedora_lookup_get_recv(status)
    \/ caller_take
    \/ \E name \in Names, folder \in BOOLEAN : caller_child(name, folder)
    \/ caller_drop

SpecMetadata == Init /\ [][NextMetadata]_vars

\* Path validation of RushFiles and Google Drive over the richer names.
InitNames ==
    /\ prov \in {"rushfiles", "googledrive"}
    /\ backend \in RichBackends
    /\ op = "none"
    /\ argStr = << >>
    /\ argPath = NoPath
    /\ argConfirm = 0
    /\ pc = "idle"
    /\ loc = NoLocals
    /\ held = NoPath
    /\ inflight = {}
    /\ log = << >>
    /\ result = Pending
    /\ before = backend
    /\ abandoned = None

NextNames ==
    \/ \E name \in {"validate_path", "validate_v1_path"}, s \in RichPathStrings :
          rf_validate_path_call(name, s)
    \/ \E status \in {200} \cup FailureStatuses : rf_validate_path_recv(status)
    \/ \E name \in {"validate_path", "validate_v1_path"}, s \in RichPathStrings :
          gd_validate_path_call(name, s)
    \/ \E status \in {200} \cup FailureStatuses : gd_resolve_parents_recv(status)
    \/ \E status \in {200} \cup FailureStatuses : gd_resolve_query_recv(status)
    \/ \E status \in {200} \cup FailureStatuses : gd_resolve_meta_recv(status)
    \/ caller_drop_result

SpecNames == InitNames /\ [][NextNames]_vars

\* Resolutions that end, fail or are abandoned, and deletes between them.
InitCalls ==
    /\ Init
    /\ prov \in {"rushfiles", "googledrive"}

NextCalls ==
    \/ \E name \in {"validate_path", "validate_v1_path"}, s \in PathStrings :
          rf_validate_path_call(name, s)
    \/ \E status \in {200} \cup FailureStatuses : rf_validate_path_recv(status)
    \/ \E confirm \in {0, 1} : rf_delete_call(confirm)
    \/ \E status \in {200} \cup FailureStatuses, deleted \in BOOLEAN :
          rf_delete_metadata_recv(status, deleted)
    \/ \E status \in {200} \cup FailureStatuses : rf_delete_recv(status)
    \/ \E name \in {"validate_path", "validate_v1_path"}, s \in PathStrings :
          gd_validate_path_call(name, s)
    \/ \E status \in {200} \cup FailureStatuses : gd_resolve_parents_recv(status)
    \/ \E status \in {200} \cup FailureStatuses : gd_resolve_query_recv(status)
    \/ \E status \in {200} \cup FailureStatuses : gd_resolve_meta_recv(status)
    \/ caller_take
    \/ caller_drop
    \/ caller_cancel

SpecCalls == InitCalls /\ [][NextCalls]_vars

\* Resolutions against a backend that answers every request: the response
\* a call awaits arrives in the end.
NextResolve ==
    \/ \E s \in PathStrings : rf_validate_path_call("validate_path", s)
    \/ \E status \in {200} \cup FailureStatuses : rf_validate_path_recv(status)
    \/ \E s \in PathStrings : gd_validate_path_call("validate_path", s)
    \/ \E status \in {200} \cup FailureStatuses : gd_resolve_parents_recv(status)
    \/ \E status \in {200} \cup FailureStatuses : gd_resolve_query_recv(status)
    \/ \E status \in {200} \cup FailureStatuses : gd_resolve_meta_recv(status)
    \/ caller_take
    \/ caller_drop

SpecResolve ==
    /\ InitCalls
    /\ [][NextResolve]_vars
    /\ WF_vars(\E status \in {200} \cup FailureStatuses : rf_validate_path_recv(status))
    /\ WF_vars(\E status \in {200} \cup FailureStatuses : gd_resolve_parents_recv(status))
    /\ WF_vars(\E status \in {200} \cup FailureStatuses : gd_resolve_query_recv(status))
    /\ WF_vars(\E status \in {200} \cup FailureStatuses : gd_resolve_meta_recv(status))

\* delete, metadata and revisions of RushFiles and Google Drive on the
\* paths validate_path returns and on the paths of their children that do
\* not exist yet.
NextOperations ==
    \/ \E s \in PathStrings : rf_validate_path_call("validate_path", s)
    \/ \E status \in {200} \cup FailureStatuses : rf_validate_path_recv(status)
    \/ \E confirm \in {0, 1} : rf_delete_call(confirm)
    \/ \E status \in {200} \cup FailureStatuses, deleted \in BOOLEAN :
          rf_delete_metadata_recv(status, deleted)
    \/ \E status \in {200} \cup FailureStatuses : rf_delete_recv(status)
    \/ rf_metadata_call
    \/ \E status \in {200} \cup FailureStatuses : rf_metadata_recv(status)
    \/ \E s \in PathStrings : gd_validate_path_call("validate_path", s)
    \/ \E status \in {200} \cup FailureStatuses : gd_resolve_parents_recv(status)
    \/ \E status \in {200} \cup FailureStatuses : gd_resolve_query_recv(status)
    \/ \E status \in {200} \cup FailureStatuses : gd_resolve_meta_recv(status)
    \/ \E confirm \in {0, 1} : gd_delete_call(confirm)
    \/ \E status \in {200} \cup FailureStatuses : gd_delete_recv(status)
    \/ \E status \in {200} \cup FailureStatuses : gd_delete_folder_contents_list_recv(status)
    \/ \E status \in {200} \cup FailureStatuses : gd_delete_folder_contents_child_recv(status)
    \/ \E revision \in {NoRevision} : gd_metadata_call(revision)
    \/ \E status \in {200} \cup FailureStatuses, n \in PageSizes, token \in PageTokens :
          gd_folder_metadata_recv(status, n, token)
    \/ \E status \in {200, 403} \cup FailureStatuses, body \in FileBodies :
          gd_file_metadata_recv(status, body)
    \/ gd_revisions_call
    \/ \E status \in {200, 403} \cup FailureStatuses, revisions \in RevisionLists :
          gd_revisions_recv(status, revisions)
    \/ \E status \in {200} \cup FailureStatuses, has_token \in BOOLEAN :
          gd_revisions_folder_recv(status, has_token)
    \/ \E status \in {200, 403} \cup FailureStatuses, body \in FileBodies :
          gd_revisions_file_recv(status, body)
    \/ caller_take
    \/ \E name \in Names, folder \in BOOLEAN : caller_child(name, folder)
    \/ caller_drop

SpecOperations == InitCalls /\ [][NextOperations]_vars

(***************************************************************************)
(* Reference resolution: what a path string denotes in a backend, stated   *)
(* on the backend alone                                                    *)
(***************************************************************************)
\* The segments of a path string.
Segs(s) == SplitSlash(StripSlash(s))

\* Every response the call in progress received was a 200: the backend
\* refused nothing and every entity asked about exists.
Answered200 == \A k \in 1..Len(log) : log[k].e = "resp" => log[k].status = 200

\* The child of parent a segment denotes: the first child of that name in
\* the listing; Google Drive searches by name and kind.
RefChild(p, b, parent, name, wantFolder) ==
    LET kids == ChildrenOf(b, parent)
        hits == { k \in 1..Len(kids) :
                    /\ b[kids[k]].name = name
                    /\ (p = "googledrive" => b[kids[k]].isFile = ~wantFolder) }
    IN  IF hits = {} THEN None
        ELSE kids[CHOOSE m \in hits : \A n \in hits : m <= n]

RECURSIVE RefWalk(_, _, _, _, _)
RefWalk(p, b, segs, trailing, ids) ==
    IF Len(segs) = 0 THEN ids
    ELSE RefWalk(p, b, Tail(segs), trailing,
                 Append(ids, RefChild(p, b, ids[Len(ids)], Head(segs),
                                      Len(segs) > 1 \/ trailing)))

\* The identifiers of the root and of every segment, None from the first
\* segment that has no match.
RefIds(p, b, s) == RefWalk(p, b, Segs(s), EndsWithSlash(s), << RootId >>)

\* The first segment without a match, 0 when every segment has one.
RefFirstMiss(p, b, s) ==
    LET ids  == RefIds(p, b, s)
        miss == { k \in 1..Len(Segs(s)) : ids[k + 1] = None }
    IN  IF miss = {} THEN 0 ELSE CHOOSE m \in miss : \A n \in miss : m <= n

\* The live children of the root that carry name x.
RootChildrenNamed(b, x) ==
    { id \in Ids : Live(b, id) /\ b[id].parent = RootId /\ b[id].name = x }

ValidateOps == {"validate_path", "validate_v1_path"}

(***************************************************************************)
(* Properties                                                              *)
(***************************************************************************)
\* C1: RushFiles validate_path, on a non-root path of n segments of which
\* every one is found and the last has the kind the trailing slash asks
\* for, returns a path with n+1 identifiers: the share id first, then for
\* each segment k the InternalName of the first child of that name in the
\* children listing of identifier k.
C1_ValidatePathIds ==
    LET segs == Segs(argStr)
        ref  == RefIds("rushfiles", backend, argStr)
    IN  ( /\ prov = "rushfiles" /\ op = "validate_path" /\ pc = "done"
          /\ argStr # << "/" >> /\ ValidPathString(argStr) /\ Answered200
          /\ RefFirstMiss("rushfiles", backend, argStr) = 0
          /\ backend[ref[Len(ref)]].isFile # EndsWithSlash(argStr) )
        => /\ result.st = "ok"
           /\ Len(result.val.ids) = Len(segs) + 1
           /\ result.val.ids[1] = RootId
           /\ \A k \in 1..Len(segs) :
                 LET data == rf_children_data(backend, result.val.ids[k])
                 IN  \E m \in 1..Len(data) :
                        /\ data[m].PublicName = segs[k]
                        /\ data[m].InternalName = result.val.ids[k + 1]
                        /\ \A j \in 1..(m - 1) : data[j].PublicName # segs[k]

\* A two-segment path was resolved to three identifiers.
C1_Witness ==
    /\ prov = "rushfiles" /\ op = "validate_path" /\ pc = "done"
    /\ result.st = "ok"
    /\ Len(Segs(argStr)) = 2
    /\ Len(result.val.ids) = 3
    /\ result.val.ids[3] \in Ids

\* C2: in every provider, for an entity named x under the root,
\* validate_v1_path('/x') fails with NotFoundError when x is a folder and
\* succeeds when x is a file, and validate_v1_path('/x/') fails with
\* NotFoundError when x is a file and succeeds when x is a folder (the
\* backend refusing nothing).
C2_V1KindMismatch ==
    \A x \in Names :
        LET kids     == RootChildrenNamed(backend, x)
            asFolder == EndsWithSlash(argStr)
        IN  ( /\ op = "validate_v1_path" /\ pc = "done" /\ Answered200
              /\ argStr \in { << "/" >> \o x, << "/" >> \o x \o << "/" >> }
              /\ kids # {} )
            => /\ (\A id \in kids : backend[id].isFile = asFolder)
                     => (result.st = "raised" /\ result.exc = "NotFoundError")
               /\ (\A id \in kids : backend[id].isFile # asFolder)
                     => result.st = "ok"

\* validate_v1_path('/x') met a folder named x and raised NotFoundError.
C2_Witness ==
    /\ op = "validate_v1_path" /\ pc = "done" /\ Answered200
    /\ argStr = << "/", "x" >>
    /\ RootChildrenNamed(backend, << "x" >>) # {}
    /\ \A id \in RootChildrenNamed(backend, << "x" >>) : ~backend[id].isFile
    /\ result.exc = "NotFoundError"

C5_MissingFinalTolerated ==
    LET segs == Segs(argStr)
        ref  == RefIds(prov, backend, argStr)
    IN  ( /\ prov \in {"rushfiles", "googledrive"} /\ op = "validate_path"
          /\ pc = "done" /\ argStr # << "/" >> /\ ValidPathString(argStr)
          /\ Answered200
          /\ RefFirstMiss(prov, backend, argStr) = Len(segs) )
        => /\ result.st = "ok"
           /\ Identifier(result.val) = None
           /\ \A k \in 1..Len(segs) : PartId(result.val, k) = ref[k]

RefPath(b, s) ==
    IF s = << "/" >> THEN MkPath(s, << RootId >>, TRUE)
    ELSE MkPath(s, RefIds("rushfiles", b, s), EndsWithSlash(s))

RefResolves(b, s) ==
    \/ s = << "/" >>
    \/ /\ ValidPathString(s)
       /\ RefFirstMiss("rushfiles", b, s) = 0
       /\ LET ids == RefIds("rushfiles", b, s)
          IN  b[ids[Len(ids)]].isFile # EndsWithSlash(s)

\* C7: in RushFiles, when validate_v1_path succeeds on a path string,
\* validate_path on the same string against the same backend returns an
\* equal path (same path string, folder flag and identifiers): both return
\* the path the string denotes in the backend.
C7_V1AgreesWithValidatePath ==
    (prov = "rushfiles" /\ op \in ValidateOps /\ pc = "done")
    => /\ (op = "validate_v1_path" /\ result.st = "ok")
            => /\ RefResolves(backend, argStr)
               /\ result.val = RefPath(backend, argStr)
       /\ (op = "validate_path" /\ Answered200 /\ RefResolves(backend, argStr))
            => result = Returned(RefPath(backend, argStr))

\* validate_v1_path succeeded on a file below the root.
C7_Witness ==
    /\ prov = "rushfiles" /\ op = "validate_v1_path" /\ pc = "done"
    /\ result.st = "ok"
    /\ argStr # << "/" >>
    /\ ~IsDir(result.val)

\* C8 as stated: in every provider, delete on the root path with
\* confirm_delete other than 1 fails with DeleteError of code 400 and
\* issues no request that removes anything.
C8_RootDeleteNeedsConfirm ==
    (op = "delete" /\ IsRoot(argPath) /\ argConfirm # 1)
    => /\ \A k \in 1..Len(log) : log[k].req.method # "DELETE"
       /\ pc = "done"
       /\ result.st = "raised" /\ result.exc = "DeleteError" /\ result.code = 400

\* C9 as stated: in every provider, delete on the root path with
\* confirm_delete 1 succeeds (the backend refusing nothing), issues delete
\* requests only for the immediate children of the root and never for the
\* root itself, and leaves the root with no child.
C9_RootDeleteConfirmed ==
    (op = "delete" /\ IsRoot(argPath) /\ argConfirm = 1)
    => /\ \A k \in 1..Len(log) :
             log[k].req.method = "DELETE"
             => \E c \in 1..Len(ChildrenOf(before, RootId)) :
                   log[k].req.id = ChildrenOf(before, RootId)[c]
       /\ ( /\ pc = "done"
            /\ \A k \in 1..Len(log) : log[k].e = "resp" => log[k].status \in {200, 204} )
           => /\ result.st = "ok"
              /\ ChildrenOf(backend, RootId) = << >>

\* C10: Fedora's delete issues DELETE of the resource first and DELETE of
\* its fcr:tombstone only after the first was answered 204; when both are
\* answered 204 the call succeeds and nothing, tombstone included, remains
\* at the path, so that a PUT there can be answered 201; when the first
\* DELETE is answered anything else the call fails with DeleteError and the
\* tombstone DELETE is never issued.
C10_FedoraDeleteTwoStep ==
    LET url   == build_repo_url(argPath)
        first == fedora_request("DELETE", url, "")
        tomb  == fedora_request("DELETE", url, "fcr:tombstone")
    IN  (prov = "fedora" /\ op = "delete")
        => /\ Len(Requests) \in {1, 2}
           /\ Requests[1].req = first
           /\ Len(Requests) = 2
                => /\ Requests[2].req = tomb
                   /\ log[2] = RespEvent(first, 204)
                   /\ log[3] = ReqEvent(tomb)
           /\ (Len(Responses) >= 1 /\ Responses[1].status # 204)
                => /\ pc = "done"
                   /\ result = Raised("DeleteError", Responses[1].status, NoMsg)
                   /\ Len(Requests) = 1
           /\ (Len(Responses) = 2 /\ Responses[2].status = 204)
                => /\ pc = "done" /\ result.st = "ok"
                   /\ ~IsRoot(argPath)
                        => /\ fedora_resource(backend, url).st = "absent"
                           /\ 201 \in fedora_statuses(backend, fedora_request("PUT", url, ""))
           /\ (pc = "done" /\ result.st = "ok")
                => (Len(Responses) = 2 /\ Responses[2].status = 204)

\* A Fedora delete of a resource below the root got 204 twice.
C10_Witness ==
    /\ prov = "fedora" /\ op = "delete" /\ pc = "done"
    /\ result.st = "ok"
    /\ ~IsRoot(argPath)
    /\ Len(Responses) = 2
    /\ fedora_resource(before, build_repo_url(argPath)).st = "live"

\* The requests of the call in progress that move or copy the source.
IsTransferRequest(ev) ==
    ev.e = "req" /\ (ev.req.kind \in {"update", "copy"} \/ ev.req.method \in {"MOVE", "COPY"})

\* The DELETE of the entity the destination path names.
IsDeleteOfDestination(ev) ==
    /\ ev.e = "req" /\ ev.req.method = "DELETE"
    /\ IF prov = "fedora"
       THEN ev.req.kind = "" /\ ev.req.segs = build_repo_url(argPath)
       ELSE ev.req.id = Identifier(argPath)

\* C11: in intra_move of Google Drive and Fedora (the providers that
\* implement it), when the destination path handed in has an identifier
\* (and is not the root, which delete refuses), the first request is the
\* DELETE of the destination entity, and a move request is in the log only
\* after that DELETE and its 200 response; when the destination path has no
\* identifier, no DELETE of the destination is in the log.
C11_DeleteBeforeMove ==
    (prov \in {"googledrive", "fedora"} /\ op = "intra_move")
    => /\ (Identifier(argPath) # None /\ ~IsRoot(argPath) /\ Len(log) > 0)
            => IsDeleteOfDestination(log[1])
       /\ Identifier(argPath) # None
            => \A k \in 1..Len(log) :
                  IsTransferRequest(log[k])
                  => \E i, j \in 1..(k - 1) :
                        /\ i < j
                        /\ IsDeleteOfDestination(log[i])
                        /\ log[j] = RespEvent(log[i].req, 200)
       /\ Identifier(argPath) = None
            => \A k \in 1..Len(log) : ~IsDeleteOfDestination(log[k])

\* Google Drive moved a file onto a destination that had an identifier:
\* the DELETE was answered and the move followed.
C11_Witness ==
    /\ prov = "googledrive" /\ op = "intra_move" /\ pc = "done"
    /\ result.st = "ok"
    /\ Identifier(argPath) # None
    /\ Len(log) = 4
    /\ IsDeleteOfDestination(log[1])
    /\ IsTransferRequest(log[3])

TransferOps == {"intra_move", "intra_copy"}

\* C12: intra_move and intra_copy of Google Drive and Fedora, when they
\* succeed, return created = TRUE exactly when the destination path handed
\* in had no identifier. Google Drive returns FALSE after it deleted the
\* entity the destination named; Fedora's paths carry no identifier, it
\* always returns TRUE, and it succeeds only where no resource was at the
\* destination when the call began.
C12_CreatedIffNoIdentifier ==
    (prov \in {"googledrive", "fedora"} /\ op \in TransferOps
        /\ pc = "done" /\ result.st = "ok")
    => /\ result.flag = (Identifier(argPath) = None)
       /\ prov = "fedora"
            => fedora_resource(before, build_repo_url(argPath)).st = "absent"

\* Google Drive copied a file onto a destination that named a live entity:
\* the entity was deleted and created is FALSE.
C12_Witness ==
    /\ prov = "googledrive" /\ op = "intra_copy" /\ pc = "done"
    /\ result.st = "ok"
    /\ Identifier(argPath) # None
    /\ before[Identifier(argPath)].st = "live"
    /\ backend[Identifier(argPath)].st = "gone"
    /\ ~result.flag

\* C13: a RushFiles intra_move / intra_copy of a live source returns a
\* metadata record, and the record carries the name the backend gave the
\* moved or copied entity (which can differ from the requested one) both as
\* its name and as the last name of its path.
C13_BackendAssignedName ==
    (prov = "rushfiles" /\ op \in TransferOps /\ pc = "done")
    => /\ result.st = "ok"
       /\ result.md.id \in Ids
       /\ result.md.name = backend[result.md.id].name
       /\ PathName(result.md.path) = backend[result.md.id].name

\* C14: after a successful Google Drive intra_move or intra_copy, the path
\* in the returned metadata record has as its final identifier the id of
\* the entity in the backend's response, not the identifier (or None) the
\* destination path carried when the call began.
C14_PathCarriesResponseId ==
    (prov = "googledrive" /\ op \in TransferOps /\ pc = "done" /\ result.st = "ok")
    => Identifier(result.md.path) = result.md.id

\* The same, of intra_move alone.
C14_MovePathCarriesResponseId ==
    (prov = "googledrive" /\ op = "intra_move" /\ pc = "done" /\ result.st = "ok")
    => Identifier(result.md.path) = result.md.id

\* C15: can_intra_move(other) and can_intra_copy(other) issue no request
\* and leave the backend alone; they answer TRUE exactly when other is the
\* provider itself, except that Google Drive's can_intra_copy answers TRUE
\* exactly when, in addition, a path is given and it is a file.
C15_CanIntraSameProvider ==
    (op \in CanOps /\ pc = "done")
    => /\ result.st = "ok"
       /\ log = << >> /\ inflight = {} /\ backend = before
       /\ result.flag => loc.other = Self
       /\ IF prov = "googledrive" /\ op = "can_intra_copy"
          THEN result.flag = (loc.other = Self /\ argPath # NoPath /\ ~IsDir(argPath))
          ELSE result.flag = (loc.other = Self)

\* Google Drive refused a copy within the provider because the path is a
\* folder.
C15_Witness ==
    /\ prov = "googledrive" /\ op = "can_intra_copy" /\ pc = "done"
    /\ loc.other = Self
    /\ argPath # NoPath /\ IsDir(argPath)
    /\ ~result.flag

\* The requests of the call in progress that create a container: Google
\* Drive's POST files, Fedora's PUT.
CreateRequests ==
    SelectSeq(log, LAMBDA ev : ev.e = "req" /\ (ev.req.kind = "create" \/ ev.req.method = "PUT"))

\* create_folder was called on a folder path whose identifier is resolved,
\* with the precheck set (RushFiles takes it set by default).
PrecheckedExisting ==
    /\ op = "create_folder" /\ pc = "done"
    /\ IsDir(argPath) /\ Identifier(argPath) # None
    /\ prov = "googledrive" => loc.folder_precheck

\* C16: in every provider, create_folder with the precheck set on a folder
\* path whose final identifier is resolved fails with FolderNamingConflict,
\* code 409, and issues no backend request.
C16_PrecheckConflict ==
    PrecheckedExisting
    => /\ result.st = "raised" /\ result.exc = "FolderNamingConflict" /\ result.code = 409
       /\ log = << >>

\* The same, of the providers that implement create_folder.
C16_PrecheckConflictImplemented ==
    (PrecheckedExisting /\ prov # "rushfiles")
    => /\ result.st = "raised" /\ result.exc = "FolderNamingConflict" /\ result.code = 409
       /\ log = << >>

\* create_folder was called on a folder path without an identifier.
CreatesNew ==
    /\ op = "create_folder" /\ pc = "done"
    /\ IsDir(argPath) /\ Identifier(argPath) = None

\* C17: create_folder on a folder path without an identifier issues exactly
\* one create-container request; when the backend answers it with a status
\* outside the success set, the call fails with CreateFolderError whose
\* code is that status and returns no metadata.
C17_OneCreateRequest ==
    CreatesNew
    => /\ Len(CreateRequests) = 1
       /\ log[1] = CreateRequests[1]
       /\ log[2].status \notin {200, 201}
            => /\ result = Raised("CreateFolderError", log[2].status, NoMsg)
               /\ Len(log) = 2

\* The same, of the providers that implement create_folder.
C17_OneCreateRequestImplemented ==
    (CreatesNew /\ prov # "rushfiles")
    => /\ Len(CreateRequests) = 1
       /\ log[1] = CreateRequests[1]
       /\ log[2].status \notin {200, 201}
            => /\ result = Raised("CreateFolderError", log[2].status, NoMsg)
               /\ Len(log) = 2

\* C18: create_folder on a path that denotes a file fails with
\* CreateFolderError before any backend request, with or without an
\* identifier on the path.
C18_FilePathRefused ==
    (op = "create_folder" /\ pc = "done" /\ ~IsDir(argPath))
    => /\ result.st = "raised" /\ result.exc = "CreateFolderError"
       /\ log = << >>

\* The same, of the providers that implement create_folder.
C18_FilePathRefusedImplemented ==
    (op = "create_folder" /\ pc = "done" /\ ~IsDir(argPath) /\ prov # "rushfiles")
    => /\ result.st = "raised" /\ result.exc = "CreateFolderError"
       /\ log = << >>

\* Every response the call in progress received carried a success status.
AnsweredSuccess ==
    \A k \in 1..Len(log) : log[k].e = "resp" => log[k].status \in {200, 201, 204}

\* An upload whose write the backend acknowledged, reporting a checksum.
UploadAcknowledged ==
    /\ op = "upload" /\ pc = "done"
    /\ loc.reported # None

\* C19: an upload of Google Drive or Fedora that the backend acknowledged
\* returns successfully only if the checksum computed over the stream
\* equals the checksum the backend reports; when they differ and every
\* request was answered with success, it fails with
\* UploadChecksumMismatchError.
C19_UploadChecksum ==
    (prov \in {"googledrive", "fedora"} /\ UploadAcknowledged)
    => /\ result.st = "ok" => loc.reported = LocalChecksum
       /\ (loc.reported # LocalChecksum /\ AnsweredSuccess)
            => (result.st = "raised" /\ result.exc = "UploadChecksumMismatchError")

\* The same, of Google Drive alone.
C19_GoogleDriveUploadChecksum ==
    (prov = "googledrive" /\ UploadAcknowledged)
    => /\ result.st = "ok" => loc.reported = LocalChecksum
       /\ (loc.reported # LocalChecksum /\ AnsweredSuccess)
            => (result.st = "raised" /\ result.exc = "UploadChecksumMismatchError")

\* C20: Google Drive revisions of a file whose revision list request is
\* answered 403, or 200 with an empty list, and whose fields are then
\* answered 200, returns exactly one revision, whose id is the file's
\* modifiedTime followed by the sentinel; it does not fail.
C20_RevisionFallback ==
    ( /\ prov = "googledrive" /\ op = "revisions" /\ pc = "done"
      /\ ~IsDir(argPath)
      /\ Len(log) = 4
      /\ log[2].status \in {200, 403}
      /\ log[4].status = 200 )
    => result = ReturnedList(<< gd_modified_time(Identifier(argPath))
                                  \o << DRIVE_IGNORE_VERSION >> >>)

\* The fallback was taken and the dummy revision returned.
C20_FallbackReturned ==
    /\ prov = "googledrive" /\ op = "revisions" /\ pc = "done"
    /\ ~IsDir(argPath) /\ Len(log) = 4 /\ log[2].status = 403
    /\ result.st = "ok"

\* A Google Drive metadata call on a file path that carries an identifier.
FileMetadataCall ==
    /\ prov = "googledrive" /\ op = "metadata"
    /\ ~IsDir(argPath) /\ Identifier(argPath) # None

\* C21: Google Drive file metadata asked for with a revision that ends with
\* the sentinel issues the request that metadata with no revision issues,
\* and returns what metadata with no revision returns for the same path,
\* status and body.
C21_SentinelRevisionIgnored ==
    (FileMetadataCall /\ EndsWith(loc.revision, << DRIVE_IGNORE_VERSION >>))
    => /\ log[1].req = gd_file_metadata_url(argPath, NoRevision)
       /\ pc = "done"
            => result = gd_file_metadata_result(argPath, NoRevision, log[2].status, loc.body,
                                                backend[Identifier(argPath)].name)

\* Metadata asked for with a sentinel revision was returned.
C21_Witness ==
    /\ FileMetadataCall /\ pc = "done"
    /\ loc.revision = << "r1", DRIVE_IGNORE_VERSION >>
    /\ result.st = "ok" /\ result.md.kind = "file"

\* The status of the last response the call in progress received.
LastStatus == log[Len(log)].status

\* A metadata call ended on a response that was not a 200.
MetadataRefused ==
    /\ op = "metadata" /\ pc = "done"
    /\ Len(log) > 0 /\ LastStatus # 200

FolderListed ==
    /\ op = "metadata" /\ pc = "done"
    /\ IsDir(argPath) /\ Identifier(argPath) # None
    /\ Len(log) > 0 /\ Answered200

\* The result is one record per immediate child of the listed folder, in
\* listing order, a file record for a file and a folder record otherwise.
OneRecordPerChild ==
    LET kids == ChildrenOf(backend, Identifier(argPath))
    IN  /\ result.st = "ok"
        /\ Len(result.list) = Len(kids)
        /\ \A k \in 1..Len(kids) :
              /\ result.list[k].id = kids[k]
              /\ result.list[k].kind = (IF backend[kids[k]].isFile THEN "file" ELSE "folder")

\* Every request of the call lists the children of the folder itself.
ListsOnlyTheFolder ==
    \A k \in 1..Len(log) :
        log[k].req.kind = "children" /\ log[k].req.id = Identifier(argPath)

\* C23: metadata on a resolved folder path of RushFiles or Google Drive
\* returns one record per immediate child, a File record when the child is
\* a file and a Folder record otherwise, and requests the listing of that
\* folder only.
C23_FolderMetadata ==
    (prov \in {"rushfiles", "googledrive"} /\ FolderListed)
    => (OneRecordPerChild /\ ListsOnlyTheFolder)

\* The same, of RushFiles alone.
C23_RushFilesFolderMetadata ==
    (prov = "rushfiles" /\ FolderListed) => (OneRecordPerChild /\ ListsOnlyTheFolder)

\* A Google Drive metadata call on a resolved folder path.
FolderMetadataCall ==
    /\ prov = "googledrive" /\ op = "metadata"
    /\ IsDir(argPath) /\ Identifier(argPath) # None

\* Request i+1 of the listing carries the token page i came with, and the
\* first carries none.
PagesInOrder ==
    \A i \in 1..Len(Requests) :
        /\ Requests[i].req.kind = "children"
        /\ Requests[i].req.q.pageToken = i - 1
        /\ i > 1 => loc.tokens[i - 1] = "token"

\* C24: a Google Drive folder listing whose k pages are all answered 200
\* issues k requests, each carrying the token of the page before, and
\* returns the concatenation of the k pages in page order, after a page
\* without a next-page token.
C24_ListingDrained ==
    (FolderMetadataCall /\ pc = "done" /\ Len(log) > 0 /\ Answered200)
    => /\ PagesInOrder
       /\ Len(Requests) = Len(loc.pages)
       /\ loc.tokens[Len(loc.tokens)] # "token"
       /\ result.st = "ok"
       /\ Len(result.list) = Len(Flatten(loc.pages))
       /\ \A k \in 1..Len(result.list) : result.list[k].id = Flatten(loc.pages)[k]

\* What the listing does keep: pages are requested in order, and a listing
\* is returned only when all children were served and the last page named
\* no next page.
C24_NoPartialListing ==
    FolderMetadataCall
    => /\ PagesInOrder
       /\ (pc = "done" /\ result.st = "ok")
            => /\ loc.tokens[Len(loc.tokens)] # "token"
               /\ Flatten(loc.pages) = ChildrenOf(backend, Identifier(argPath))

\* expected = RushFilesPath(path, folder=...): the path a test builds from
\* the string it validated, without identifiers.
ExpectedPath == MkPath(argStr, << >>, IsDir(result.val))

\* A RushFiles validation returned a path.
RushFilesValidated ==
    /\ prov = "rushfiles" /\ op \in ValidateOps
    /\ pc = "done" /\ result.st = "ok"

DecodedPath(b, id) ==
    << "/" >> \o JoinSlash(EntityNames(b, id))
        \o (IF b[id].isFile THEN << >> ELSE << "/" >>)

EncodedPath(b, id) ==
    LET names == EntityNames(b, id)
    IN  << "/" >> \o JoinSlash([ k \in 1..Len(names) |-> Quote(names[k]) ])
            \o (IF b[id].isFile THEN << >> ELSE << "/" >>)

\* A validation of the encoded path of entity id ended with every request
\* answered 200, in a backend where no two siblings share a name.
ResolvedEncoded(id) ==
    /\ op \in ValidateOps /\ pc = "done" /\ Answered200
    /\ SiblingNamesUnique(backend)
    /\ Live(backend, id)
    /\ argStr = EncodedPath(backend, id)

\* The validation returned a path whose string form is the path of entity
\* id, with the trailing slash exactly when it is a folder.
RoundTrip(id) ==
    /\ result.st = "ok"
    /\ PathStr(result.val) = DecodedPath(backend, id)
    /\ IsDir(result.val) = ~backend[id].isFile

\* C26: resolving the percent-encoded form of the path of an entity that
\* exists yields, in RushFiles and Google Drive, a path whose string form
\* is that path, with the trailing slash exactly when it is a folder.
C26_RoundTrip ==
    \A id \in Ids :
        (prov \in {"rushfiles", "googledrive"} /\ ResolvedEncoded(id)) => RoundTrip(id)

\* The same, of Google Drive alone.
C26_GoogleDriveRoundTrip ==
    \A id \in Ids : (prov = "googledrive" /\ ResolvedEncoded(id)) => RoundTrip(id)

\* The same, of RushFiles and the paths whose encoded form is the path
\* itself.
C26_RushFilesPlainRoundTrip ==
    \A id \in Ids :
        ( /\ prov = "rushfiles" /\ ResolvedEncoded(id)
          /\ EncodedPath(backend, id) = DecodedPath(backend, id) ) => RoundTrip(id)

\* The positions in the listing of parent whose display name is exactly
\* name.
ExactHits(b, parent, name) ==
    { j \in 1..Len(ChildrenOf(b, parent)) : b[ChildrenOf(b, parent)[j]].name = name }

\* Part k of path v carries the identifier of the first entry, in listing
\* order, of its parent's children whose display name is exactly the
\* segment, and none when there is no such entry.
FirstExactMatch(b, v, k) ==
    LET parent == PartId(v, k - 1)
        kids   == ChildrenOf(b, parent)
        hits   == ExactHits(b, parent, PartNames(v)[k])
    IN  IF hits = {} THEN PartId(v, k) = None
        ELSE PartId(v, k) = kids[CHOOSE m \in hits : \A n \in hits : m <= n]

\* C27: every part of a path RushFiles resolution returns carries the
\* identifier of the first child, in listing order, whose display name
\* equals the segment exactly; an entry that differs in letter case is not
\* matched; and the path is a folder exactly when that first entry is one.
C27_FirstExactMatchWins ==
    (prov = "rushfiles" /\ op \in ValidateOps /\ pc = "done" /\ result.st = "ok")
    => LET v == result.val
       IN  /\ \A k \in 2..Len(PartNames(v)) :
                 /\ FirstExactMatch(backend, v, k)
                 /\ PartId(v, k) # None => backend[PartId(v, k)].name = PartNames(v)[k]
           /\ (~IsRoot(v) /\ Identifier(v) # None)
                 => IsDir(v) = ~backend[Identifier(v)].isFile

\* The segment x was resolved past an entry X listed before the entry x.
C27_Witness ==
    /\ prov = "rushfiles" /\ op = "validate_v1_path" /\ pc = "done"
    /\ backend["a"].name = << "X" >> /\ backend["a"].parent = RootId
    /\ backend["b"].name = << "x" >> /\ backend["b"].parent = RootId
    /\ argStr = << "/", "x" >>
    /\ result.st = "ok" /\ Identifier(result.val) = "b"

\* Requests and responses alternate, each response answering the request
\* just before it, and at most one request awaits its response.
OneAtATime ==
    /\ Cardinality(inflight) <= 1
    /\ \A k \in 1..Len(log) :
          IF k % 2 = 1 THEN log[k].e = "req"
          ELSE log[k].e = "resp" /\ log[k].req = log[k - 1].req
    /\ inflight = (IF Len(log) % 2 = 1 THEN { log[Len(log)].req } ELSE {})

\* The lookups of a RushFiles resolution: the j-th lists the children of
\* the identifier segment j-1 resolved to, the first those of the root.
RushFilesLookupsChained ==
    \A j \in 1..Len(Requests) :
        /\ Requests[j].req.kind = "children"
        /\ Requests[j].req.id = RefIds("rushfiles", before, argStr)[j]

\* The lookups of a Google Drive resolution, three for segment j: the
\* parents of, and the name query in, the identifier segment j-1 resolved
\* to, and the fields of the identifier the query found.
GoogleDriveLookupsChained ==
    \A i \in 1..Len(Requests) :
        LET j   == ((i - 1) \div 3) + 1
            ids == RefIds("googledrive", before, argStr)
            r   == Requests[i].req
        IN  CASE (i - 1) % 3 = 0 -> r.kind = "parents" /\ r.id = ids[j]
              [] (i - 1) % 3 = 1 -> r.kind = "query" /\ r.id = ids[j]
                                    /\ r.q.name = Segs(argStr)[j]
              [] OTHER           -> r.kind = "meta" /\ r.id = ids[j + 1]

\* C28: in a path resolution of RushFiles or Google Drive the lookup for a
\* segment is issued only after the response for the segment before it
\* has been received, is addressed to the identifier that response
\* resolved, and never are two lookups in flight.
C28_SequentialResolution ==
    (op \in ValidateOps /\ prov \in {"rushfiles", "googledrive"})
    => /\ OneAtATime
       /\ prov = "rushfiles" => RushFilesLookupsChained
       /\ prov = "googledrive" => GoogleDriveLookupsChained

\* The lookup for a second segment is in flight, addressed to the entity
\* the first resolved to.
C28_Witness ==
    /\ prov = "rushfiles" /\ op \in ValidateOps
    /\ Len(Requests) = 2 /\ Cardinality(inflight) = 1
    /\ Requests[2].req.id = "b"

\* The statuses the call site of request r expects.
Expects(p, r) ==
    CASE p = "rushfiles"                      -> {200, 404}
      [] p = "googledrive" /\ r.kind \in {"fields", "revision"}
                                              -> {200, 403, 404}
      [] p = "googledrive" /\ r.kind = "revisions"
                                              -> {200, 403}
      [] p = "googledrive"                    -> {200}
      [] r.method \in {"HEAD", "GET"}         -> {200, 404}
      [] r.method = "DELETE"                  -> {204}
      [] OTHER                                -> {201}

\* The errors the call sites declare as what they throw.
TypedErrors ==
    { "MetadataError", "DeleteError", "IntraMoveError", "IntraCopyError",
      "CreateFolderError", "UploadError", "RevisionsError" }

PathTakingCall ==
    \/ prov = "googledrive" /\ op \in {"intra_move", "intra_copy", "upload"}
    \/ prov = "rushfiles" /\ op = "metadata"

\* The path object the caller handed to the call, as it is now: the
\* destination path of a move or copy, the path of an upload, the path of
\* a metadata call.
PassedPath ==
    IF op \in {"intra_move", "intra_copy"} THEN loc.dest_path ELSE loc.path

\* C30: when a move, a copy, an upload or a metadata call has ended, the
\* path object handed to it has the same identifier sequence and the same
\* folder flag as when the call began.
C30_PathArgumentsUnchanged ==
    (PathTakingCall /\ pc = "done")
    => /\ PathIds(PassedPath) = PathIds(argPath)
       /\ IsDir(PassedPath) = IsDir(argPath)

\* The same for the calls that write nothing on the path: a copy, and a
\* RushFiles listing, whose folder records set the flag of a path that is
\* a folder already.
C30_CopyAndListingKeepPath ==
    (pc = "done" /\ (\/ prov = "googledrive" /\ op = "intra_copy"
                     \/ prov = "rushfiles" /\ op = "metadata"))
    => PassedPath = argPath

\* A RushFiles delete of a path that has an identifier and is not the root.
RushFilesDelete ==
    /\ prov = "rushfiles" /\ op = "delete"
    /\ Identifier(argPath) # None /\ ~IsRoot(argPath)

\* The positions of the log at which a DELETE request was issued.
DeleteRequests == { k \in 1..Len(log) : log[k].e = "req" /\ log[k].req.method = "DELETE" }

\* The tombstone check of a delete: the entity's own metadata is fetched
\* first; a DELETE is the second request and follows a 200 answer to the
\* first; a delete that ended on that 200 answer was refused for the flag
\* (DeleteError 403); a 404 answer to the DELETE gives NotFoundError.
TombstoneChecked ==
    /\ Len(log) >= 1 => log[1].req = rf_virtualfile_request(Identifier(argPath))
    /\ Cardinality(DeleteRequests) <= 1
    /\ \A k \in DeleteRequests : k = 3 /\ log[2].status = 200
    /\ (pc = "done" /\ Len(log) = 2 /\ log[2].status = 200)
       => (result.exc = "DeleteError" /\ result.code = 403)
    /\ (pc = "done" /\ Len(log) = 4 /\ log[4].status = 404)
       => result = NotFoundError(PathStr(argPath))

\* C31: a RushFiles delete of a resolved path other than the root, file or
\* folder, fetches the entity's metadata and checks its deletion flag
\* before it issues the DELETE, which it issues at most once; a 404 answer
\* to the DELETE gives NotFoundError.
C31_TombstoneCheckedBeforeDelete ==
    RushFilesDelete => TombstoneChecked

\* The same for file paths only.
C31_FileTombstoneChecked ==
    (RushFilesDelete /\ ~IsDir(argPath)) => TombstoneChecked

\* A file whose flag was set was deleted; another's DELETE was answered 404.
C31_FileDeleted ==
    /\ RushFilesDelete /\ ~IsDir(argPath) /\ pc = "done"
    /\ Len(log) = 4 /\ log[4].status = 200 /\ result = ReturnedNone

\* A Fedora resolution of a well-formed path string.
FedoraResolution ==
    /\ prov = "fedora" /\ op = "validate_v1_path" /\ ValidPathString(argStr)

\* The url of the path being resolved.
ResolvedUrl == build_repo_url(MkPathDefault(argStr, << >>))

\* The resource at the url when the call began is the root or a folder.
IsContainerResource ==
    LET res == fedora_resource(before, ResolvedUrl)
    IN  res.id = RootId \/ (res.id \in Ids /\ ~before[res.id].isFile)

\* C32 as stated: a Fedora resolution that succeeded issued one HEAD
\* request per path segment, in order from the root, and the path is a
\* folder exactly when the resource is a container.
C32_ProbePerSegment ==
    (FedoraResolution /\ pc = "done" /\ result.st = "ok" /\ Len(ResolvedUrl) >= 1)
    => /\ Len(Requests) = Len(ResolvedUrl)
       /\ \A k \in 1..Len(Requests) :
             /\ Requests[k].req.method = "HEAD"
             /\ Requests[k].req.segs = SubSeq(ResolvedUrl, 1, k)
       /\ IsDir(result.val) = IsContainerResource

\* C32 amended: a Fedora resolution issues one HEAD request, for the url
\* of the whole path; answered 200, it returns the path when the path is a
\* folder path exactly when the resource is a container, and NotFoundError
\* otherwise.
C32_OneProbeClassifies ==
    FedoraResolution
    => /\ Len(Requests) <= 1
       /\ \A k \in 1..Len(Requests) :
             Requests[k].req = fedora_request("HEAD", ResolvedUrl, "")
       /\ (pc = "done" /\ log[2].status = 200)
          => IF IsContainerResource = EndsWithSlash(argStr)
             THEN /\ result = Returned(MkPathDefault(argStr, << >>))
                  /\ IsDir(result.val) = IsContainerResource
             ELSE result = NotFoundError(argStr)

\* A path of two segments that names a file was resolved with one probe.
C32_Witness ==
    /\ FedoraResolution /\ pc = "done" /\ result.st = "ok"
    /\ Len(ResolvedUrl) = 2 /\ ~IsDir(result.val) /\ Len(Requests) = 1

\* A Fedora move.
FedoraMove == prov = "fedora" /\ op = "intra_move"

\* The Location header of the answer to the MOVE request.
MoveLocation == Requests[1].req.q.dest

\* C33: a Fedora intra_move issues MOVE first, the DELETE of the source's
\* tombstone only once MOVE was answered 201, and the metadata lookup only
\* once that DELETE was answered 204; the path of the record it returns is
\* the one computed from the Location header of the MOVE response.
C33_MoveThenTombstoneThenLookup ==
    FedoraMove
    => /\ \A k \in 1..Len(Requests) :
             /\ Requests[k].req.method = "MOVE" <=> k = 1
             /\ Requests[k].req.method = "DELETE" <=> k = 2
             /\ Requests[k].req.method \in {"HEAD", "GET"} <=> k >= 3
       /\ Len(Requests) >= 2
          => /\ log[2].status = 201
             /\ Requests[2].req = fedora_request("DELETE", Requests[1].req.segs,
                                                 "fcr:tombstone")
       /\ Len(Requests) >= 3
          => /\ log[4].status = 204
             /\ Requests[3].req = fedora_request("HEAD", MoveLocation, "")
       /\ (pc = "done" /\ result.st = "ok")
          => /\ Len(Requests) = 4
             /\ result.md.path = fedora_url_to_path(MoveLocation)

\* A folder was moved to a folder path: the record's path is the one read
\* from the Location header, which is not the path that was asked for.
C33_Witness ==
    /\ FedoraMove /\ pc = "done" /\ result.st = "ok"
    /\ IsDir(argPath) /\ result.md.kind = "folder"
    /\ result.md.path # argPath

\* The move or copy request of the call was the last to be answered, with
\* a status outside what was expected.
TransferRejected ==
    /\ op \in {"intra_move", "intra_copy"} /\ pc = "done"
    /\ Len(log) >= 2
    /\ log[Len(log)].e = "resp"
    /\ IsTransferRequest(ReqEvent(log[Len(log)].req))
    /\ log[Len(log)].status \notin Expects(prov, log[Len(log)].req)

\* C34: a rejected copy request ends intra_copy with IntraCopyError and a
\* rejected move request ends intra_move with IntraMoveError, each with
\* the backend's status as its code, for every provider.
C34_TypedTransferErrors ==
    TransferRejected
    => /\ result.st = "raised"
       /\ result.code = log[Len(log)].status
       /\ result.exc = IF op = "intra_copy" THEN "IntraCopyError" ELSE "IntraMoveError"

\* The same for Fedora, and for the move of Google Drive.
C34_FedoraAndMoveTyped ==
    (TransferRejected /\ (prov = "fedora" \/ op = "intra_move"))
    => /\ result.st = "raised"
       /\ result.code = log[Len(log)].status
       /\ result.exc = IF op = "intra_copy" THEN "IntraCopyError" ELSE "IntraMoveError"

\* C35: whatever calls came before, and whether the last resolution ended,
\* failed or was abandoned half-way, a validate_path of RushFiles or Google
\* Drive issues the requests a first call on the same backend would issue,
\* starting at the root identifier, and returns the identifiers the path
\* string denotes in that backend.
C35_NoStateBetweenCalls ==
    (op \in ValidateOps /\ prov \in {"rushfiles", "googledrive"})
    => /\ prov = "rushfiles" => RushFilesLookupsChained
       /\ prov = "googledrive" => GoogleDriveLookupsChained
       /\ (pc = "done" /\ result.st = "ok")
          => result.val.ids = (IF argStr = << "/" >> THEN << RootId >>
                               ELSE RefIds(prov, before, argStr))

\* A resolution of two segments succeeded after another had been abandoned
\* below the root.
C35_Witness ==
    /\ op \in ValidateOps /\ prov = "rushfiles" /\ pc = "done" /\ result.st = "ok"
    /\ Len(Segs(argStr)) = 2
    /\ abandoned \in Ids

\* A Google Drive move or copy onto a destination that has an identifier,
\* whose delete of the destination failed: refused before any request for
\* the root, or answered with a status other than 200.
DestinationDeleteFailed ==
    /\ prov = "googledrive" /\ op \in TransferOps
    /\ Identifier(argPath) # None
    /\ \/ IsRoot(argPath) /\ pc = "done"
       \/ Len(log) >= 2 /\ IsDeleteOfDestination(log[1]) /\ log[2].status # 200

\* C36: when the delete of an existing destination fails in a Google Drive
\* intra_move or intra_copy, the call ends with the delete's error, no move
\* or copy request is issued, and the source keeps its parent and name.
C36_FailedDeleteStopsTransfer ==
    DestinationDeleteFailed
    => LET src == Identifier(loc.src_path)
       IN  /\ pc = "done"
           /\ result.st = "raised" /\ result.exc = "DeleteError"
           /\ \A k \in 1..Len(log) : ~IsTransferRequest(log[k])
           /\ backend[src] = before[src]

\* The DELETE of the destination of a move was answered 500.
C36_Witness ==
    /\ DestinationDeleteFailed /\ op = "intra_move"
    /\ Len(log) = 2 /\ log[2].status = 500 /\ pc = "done"
    /\ Live(backend, Identifier(loc.src_path))

\* A Google Drive upload to a file path.
GoogleDriveUpload == prov = "googledrive" /\ op = "upload" /\ ~IsDir(argPath)

\* The identifier of the file the backend stored: the identifier the path
\* had, or the one the backend handed out for the new file.
StoredId ==
    IF Identifier(argPath) # None THEN Identifier(argPath)
    ELSE CHOOSE id \in Ids : before[id].st = "free" /\ Live(backend, id)

\* C37: a Google Drive upload to a path without identifier starts with a
\* POST that names no file and returns created = true; to a path with an
\* identifier it starts with a PUT on that identifier and returns created =
\* false. The content request follows the 200 answer to the start request,
\* and the path returned ends in the identifier of the file the backend
\* stored.
C37_UploadCreateOrUpdate ==
    GoogleDriveUpload
    => /\ Len(Requests) <= 2
       /\ Len(Requests) >= 1
          => /\ Requests[1].req.kind = "upload_start"
             /\ IF Identifier(argPath) = None
                THEN Requests[1].req.method = "POST" /\ Requests[1].req.id = None
                ELSE /\ Requests[1].req.method = "PUT"
                     /\ Requests[1].req.id = Identifier(argPath)
       /\ Len(Requests) = 2
          => /\ log[2].status = 200
             /\ Requests[2].req.kind = "upload_finish"
             /\ Requests[2].req.method = "PUT"
       /\ (pc = "done" /\ result.st = "ok")
          => /\ Len(Requests) = 2
             /\ result.flag = (Identifier(argPath) = None)
             /\ Identifier(result.md.path) = StoredId
             /\ Live(backend, StoredId)

\* A new file was uploaded: the path returned carries the new identifier.
C37_WitnessCreated ==
    /\ GoogleDriveUpload /\ pc = "done" /\ result.st = "ok"
    /\ Identifier(argPath) = None /\ result.flag
    /\ Identifier(result.md.path) \in Ids

\* A delete, metadata or revisions call of RushFiles or Google Drive on a
\* path whose last identifier is None.
UnresolvedPathCall ==
    /\ prov \in {"rushfiles", "googledrive"}
    /\ op \in {"delete", "metadata", "revisions"}
    /\ Identifier(argPath) = None

Resolving ==
    /\ prov \in {"rushfiles", "googledrive"} /\ op \in ValidateOps
    /\ pc \notin {"idle", "done"}

\* The name queries of a Google Drive resolution that were answered.
QueriesAnswered == SelectSeq(Responses, LAMBDA ev : ev.req.kind = "query")

\* The requests of a resolution of n segments: at most n listings of
\* RushFiles, the i-th issued in iteration i; at most 3n requests of Google
\* Drive, of which each answered name query has taken one segment off the
\* parts.
ResolutionBounded ==
    (prov \in {"rushfiles", "googledrive"} /\ op \in ValidateOps /\ argStr # << "/" >>)
    => LET n == Len(Segs(argStr))
       IN  IF prov = "rushfiles"
           THEN /\ Len(Requests) <= n
                /\ pc = "rf_validate_recv" => loc.i = Len(Requests)
           ELSE /\ Len(Requests) <= 3 * n
                /\ Resolving => Len(loc.parts) + Len(QueriesAnswered) = n

\* C39: a path resolution on a backend that answers every request ends:
\* RushFiles validate_path after at most n listing requests for a path of n
\* segments, Google Drive after at most 3n requests, each loop iteration
\* taking one segment.
C39_ResolutionTerminates ==
    /\ []ResolutionBounded
    /\ Resolving ~> (pc = "done")

\* A Google Drive resolution of two segments ended after six requests.
C39_Witness ==
    /\ prov = "googledrive" /\ op \in ValidateOps /\ pc = "done"
    /\ Len(Segs(argStr)) = 2 /\ Len(Requests) = 6

====
